---- MODULE Spec2Model ----
(***************************************************************************)
(* Model of the Tesla Powerwall gateway client (class HttpClient): session *)
(* cookies, single-flight / rate-limited authentication, 401 and 429       *)
(* retries, the response cache, the periodic re-login timer and destroy(). *)
(* The accessories (battery, grid status, grid power sensors, power meter)  *)
(* are modelled with their getters, polling timers and destroy(); to them   *)
(* a request of the client is an await that resolves with data or rejects.  *)
(* Every action is one run-to-completion step of the JavaScript event loop *)
(* (from one await that needs the network or a timer to the next).         *)
(***************************************************************************)
EXTENDS Integers, Sequences, FiniteSets, TLC

\* ------------------------------------------------------------------ bounds
MaxCalls == 2          \* get()/post()/authenticate() calls of the host in progress together
AuthFaults == 2        \* SpecAuth: responses of the gateway that are not a clean success
AuthTicks == 1         \* SpecAuth: clock steps of one Quantum taken while no timer is due sooner
CacheFaults == 1       \* SpecCache: the same two budgets
CacheTicks == 2
LifeFaults == 1        \* SpecLife: the same two budgets
LifeTicks == 1
\* getter calls of the host in progress at a time
MaxReads == 1
\* callbacks of one polling timer in progress at a time
MaxOverlap == 1
\* SpecPoll: options of the accessories other than the battery that are on
MaxEnabled == 1
SessionFaults == 2     \* SpecSession: the same two budgets as SpecAuth
SessionTicks == 1
MaxCookies == 2        \* SpecCookies: Set-Cookie values in one login response
CookieFaults == 2
CookieTicks == 0
MaxRestored == 3        \* SpecDiscover: cached accessories the host restores
PollOverlap == 2        \* SpecOverlap: callbacks of one loop in progress
WriteFaults == 2        \* SpecWrites
WriteTicks == 1
LiveFaults == 2        \* SpecLive: the same two budgets
LiveTicks == 0

\* ------------------------------------------------------- program constants
minInterval == 5000
loginInterval == 1000 * 60 * 60 * 11
DefaultRetryAfter == <<"3", "0">>
LoginEndpoint == "/api/login/Basic"

\* Time is kept relative: the code reads the clock only in differences
\* (Date.now() - timestamp) and in timer delays, so the model keeps the age of
\* every timestamp, capped where the code no longer tells ages apart, and the
\* remaining delay of every timer. Time passes in steps of one Quantum, or up
\* to the next timer that is due; calls and responses happen between the steps.
Quantum == minInterval
Endpoints == {"/api/system_status/soe", "/api/meters/aggregates"}
PostEndpoints == {"/api/system_status/soe"}
TtlChoices == {0, Quantum}
MaxTtl == Quantum

\* the async calls that can be in progress: MaxCalls calls of the host at a
\* time, startLoginProcess (started by the constructor) and the callback of
\* the periodic timer
Reqs == 1..MaxCalls
Ctor == MaxCalls + 1
Tmr == MaxCalls + 2
Procs == Reqs \cup {Ctor, Tmr}

\* ------------------------------------------------------------------ strings
Empty == <<>>
Null == <<"null">>
Digits == {"0", "1", "2", "3", "4", "5", "6", "7", "8", "9"}

DigitVal(c) ==
  CASE c = "0" -> 0 [] c = "1" -> 1 [] c = "2" -> 2 [] c = "3" -> 3
    [] c = "4" -> 4 [] c = "5" -> 5 [] c = "6" -> 6 [] c = "7" -> 7
    [] c = "8" -> 8 [] OTHER -> 9

RECURSIVE SkipSpaces(_)
SkipSpaces(s) ==
  IF s # <<>> /\ Head(s) = " " THEN SkipSpaces(Tail(s)) ELSE s

RECURSIVE DigitPrefix(_)
DigitPrefix(s) ==
  IF s # <<>> /\ Head(s) \in Digits THEN <<Head(s)>> \o DigitPrefix(Tail(s)) ELSE <<>>

RECURSIVE DigitsValue(_, _)
DigitsValue(s, acc) ==
  IF s = <<>> THEN acc ELSE DigitsValue(Tail(s), acc * 10 + DigitVal(Head(s)))

\* parseInt(text): leading blanks skipped, an optional sign, then the longest
\* run of decimal digits; NaN when there is no digit.
ParseInt(s) ==
  LET t == SkipSpaces(s)
      neg == t # <<>> /\ Head(t) = "-"
      u == IF t # <<>> /\ Head(t) \in {"-", "+"} THEN Tail(t) ELSE t
      d == DigitPrefix(u)
  IN IF d = <<>> THEN [nan |-> TRUE, n |-> 0]
     ELSE [nan |-> FALSE, n |-> IF neg THEN 0 - DigitsValue(d, 0) ELSE DigitsValue(d, 0)]

\* setTimeout(fn, ms): a delay that is NaN, below 1 or above TIMEOUT_MAX is 1 ms.
TimerDelay(v) ==
  IF v.nan \/ v.n < 1 \/ v.n > 2147483647 THEN 1 ELSE v.n

\* headers.get('retry-after') || '30', parseInt(...) * 1000, as a timer delay
RetryWaitMs(hdr) ==
  LET text == IF hdr = Null \/ hdr = Empty THEN DefaultRetryAfter ELSE hdr
      p == ParseInt(text)
  IN TimerDelay([nan |-> p.nan, n |-> p.n * 1000])

RECURSIVE FirstSegment(_)
FirstSegment(s) ==
  IF s = <<>> \/ Head(s) = ";" THEN <<>> ELSE <<Head(s)>> \o FirstSegment(Tail(s))

RECURSIVE TrimRight(_)
TrimRight(s) ==
  IF s # <<>> /\ s[Len(s)] = " " THEN TrimRight(SubSeq(s, 1, Len(s) - 1)) ELSE s

Trim(s) == TrimRight(SkipSpaces(s))

RECURSIVE JoinCookies(_)
JoinCookies(list) ==
  IF list = <<>> THEN <<>>
  ELSE IF Len(list) = 1 THEN list[1]
  ELSE list[1] \o <<";", " ">> \o JoinCookies(Tail(list))

RECURSIVE CookiePairs(_)
CookiePairs(list) ==
  IF list = <<>> THEN <<>>
  ELSE LET p == Trim(FirstSegment(Head(list)))
       IN IF Len(p) > 0 THEN <<p>> \o CookiePairs(Tail(list)) ELSE CookiePairs(Tail(list))

\* extractAndStoreCookies: the session after a login response whose set-cookie
\* header is hdr (NoSetCookie when absent, else the list of its values)
NoSetCookie == <<>>

\* response.headers.get('set-cookie') of node-fetch: null when the response has
\* no such header, else the header's values joined with ", " into one string
RECURSIVE HeadersGet(_)
HeadersGet(values) ==
  IF values = <<>> THEN Null
  ELSE IF Len(values) = 1 THEN values[1]
  ELSE values[1] \o <<",", " ">> \o HeadersGet(Tail(values))

\* cookieStrings: the array branch is taken for an array only; headers.get
\* gives a string, which becomes the only element
CookieStrings(hdr) == <<HeadersGet(hdr)>>

ExtractCookies(hdr, old) ==
  IF HeadersGet(hdr) \in {Null, Empty} THEN old
  ELSE JoinCookies(CookiePairs(CookieStrings(hdr)))

CookieA == <<"a", "=", "1", ";", " ", "P">>
CookieB == <<" ", "b", "=", "2">>
CookieBlank == <<" ", ";", "x">>
\* the gateway issues a new token with every login it accepts
GoodSetCookie(session) ==
  IF session = JoinCookies(CookiePairs(<<CookieA>>)) THEN <<CookieB>> ELSE <<CookieA>>
BadSetCookie == {NoSetCookie, <<CookieBlank>>}

\* retry-after header values of the gateway, with the delay in seconds that the
\* value stands for (delay-seconds, or an HTTP-date that many seconds ahead)
RetryAfterHeaders ==
  { [text |-> Null, secs |-> 30],
    [text |-> <<"5">>, secs |-> 5],
    [text |-> <<"F", "r", "i", ",", " ", "0", "6">>, secs |-> 5] }

\* ------------------------------------------------------------------ results
NoResult == [kind |-> "none", status |-> 0]
Ok == [kind |-> "ok", status |-> 200]
HttpError(status) == [kind |-> "http", status |-> status]
RateLimitError == [kind |-> "ratelimit", status |-> 429]
TransportError == [kind |-> "transport", status |-> 0]
JsonError == [kind |-> "json", status |-> 200]

NoData == "-"
NoEntry == [data |-> NoData, age |-> 0]
NoAuth == 0
NoTimer == 0
TimerHandle == 1

Min(a, b) == IF a < b THEN a ELSE b
ErrorStatuses == {500}

VARIABLES
  sessionCookies,   \* this.sessionCookies
  sinceAuth,        \* Date.now() - this.lastAuthAttempt, capped at minInterval
  authInProgress,   \* this.authInProgress: NoAuth, or the thread whose authenticate() promise it holds
  loginIntervalId,  \* this.loginIntervalId
  interval,         \* the setInterval timer of startLoginProcess: armed, rem (ms until it fires)
  cache,            \* this.cache: url -> {data, timestamp}, the timestamp kept as an age
  th,               \* the position of every async call
  faultsLeft,       \* the gateway: failures it may still produce
  ticksLeft,        \* clock steps of one Quantum that may still be taken
  hist              \* what has happened so far, as far as the properties need it

\* the platform (TeslaPowerwallPlatform) and what it has asked of the host
VARIABLES
  plat              \* phase, ip, password, client, listening, accessories (the
                    \* restored UUIDs), discoveredCacheUUIDs, handlers,
                    \* registered, unregistered

\* what the accessories leave alone: the client and the platform
httpVars == <<sessionCookies, sinceAuth, authInProgress, loginIntervalId, interval,
              cache, th, faultsLeft, ticksLeft, hist, plat>>

\* the accessories of the platform (PowerwallAccessory, GridStatusAccessory,
\* GridPowerSensorAccessory, PowerMeterAccessory)
VARIABLES
  config,             \* platform.config: lowBattery, gridSensorThreshold
  stored,             \* the field each getter keeps (batteryLevel, chargingState, ...)
  pollingIntervalId,  \* this.pollingIntervalId of each accessory
  pollTimer,          \* the setInterval timer of each accessory's startPolling: is it set
  ticks,              \* the callbacks of each polling timer that are in progress
  reads,              \* the getter calls of the host (onGet) that are in progress
  removed,            \* the accessories whose destroy() has been called
  lastGood,           \* per getter, the value of its latest successful fetch
  ev                  \* what the latest step did, for the properties

accVars == <<config, stored, pollingIntervalId, pollTimer, ticks, reads, removed,
             lastGood, ev, plat>>

vars == <<sessionCookies, sinceAuth, authInProgress, loginIntervalId, interval,
          cache, th, faultsLeft, ticksLeft, hist, config, stored, pollingIntervalId,
          pollTimer, ticks, reads, removed, lastGood, ev, plat>>

\* ------------------------------------------------------------ thread records
IdleThread ==
  [ pc |-> "idle", method |-> "-", endpoint |-> "-", ttl |-> 0,
    isRetry |-> FALSE, loginRetry |-> FALSE, ctx |-> "none", auth |-> NoAuth,
    rem |-> 0, result |-> NoResult,
    \* history of the call, kept for the properties
    sends |-> 0, logins |-> 0, awrl |-> 0, st1 |-> 0, st2 |-> 0,
    foundEmpty |-> FALSE, fresh |-> FALSE, startAge |-> 0,
    joined |-> FALSE, reauth |-> NoResult, hdrSecs |-> 0, waited |-> 0,
    cookie |-> Empty ]

WaitPcs == {"wait429", "rateWait", "loginWait429"}
LoginPcs == {"loginFetch", "loginWait429", "loginJson"}
EndPcs == {"idle", "done", "failed"}
Active(t) == th[t].pc \notin EndPcs
Ended(t) == th[t].pc \in {"done", "failed"}

\* The record of a call that has returned or thrown is kept for one step, so
\* that the properties can read its outcome; every step starts from Cur, where
\* the calls that ended in the step before are forgotten.
Cur == [t \in Procs |-> IF th[t].pc \in EndPcs THEN IdleThread ELSE th[t]]

\* hist: pristine (no host call, destroy() or clearSession() yet), destroyed,
\* lateCalls (a host call was started after destroy())
InitHist == [ pristine |-> TRUE, destroyed |-> FALSE, lateCalls |-> FALSE,
              watch |-> FALSE, tokenAge |-> 0, sinceArm |-> 0 ]

\* with watch, the history also keeps the token each request was sent with
\* (cookie, in the record of the call), the time since sessionCookies was
\* last stored by a login response (tokenAge, capped at StaleAge) and the time
\* since the periodic timer was set or last fired (sinceArm)
WatchedHist == [InitHist EXCEPT !.watch = TRUE]
StaleAge == loginInterval + Quantum

NoteHostCall(h) == [h EXCEPT !.pristine = FALSE, !.lateCalls = @ \/ h.destroyed]

\* ------------------------------------------------------ decisions of the code
\* a cache that still serves an entry whose age equals the ttl
CacheHitInclusive(method, url, ttl) ==
  /\ method = "GET"
  /\ ttl # 0
  /\ cache[url] # NoEntry
  /\ cache[url].age <= ttl

\* makeRequest: if (method === 'GET' && cacheInterval) { cached && now - ts < ttl }
CacheHit(method, url, ttl) ==
  /\ method = "GET"
  /\ ttl # 0
  /\ cache[url] # NoEntry
  /\ cache[url].age < ttl

\* ensureAuthenticated: if (!this.sessionCookies)
NeedsAuth(session) == session = Empty

\* a client that never sees an attempt in progress
AuthNeverInProgress(aip) == FALSE

\* authenticateWithRateLimit: if (this.authInProgress)
AuthAlreadyInProgress(aip) == aip # NoAuth

\* authenticateWithRateLimit: the wait before the attempt (0 when none)
RateLimitWait(timeSinceLastAuth) ==
  IF timeSinceLastAuth < minInterval THEN minInterval - timeSinceLastAuth ELSE 0

\* a client that re-authenticates on every 401, also on the one to a re-sent request
ShouldReauthOnRetry(status, isRetry, endpoint) ==
  status = 401 /\ endpoint # LoginEndpoint

\* a client that re-authenticates on a 401 to a login request as well
ShouldReauthOnLogin(status, isRetry, endpoint) ==
  status = 401 /\ ~isRetry

\* a client that re-authenticates on every error status of a first send
ShouldReauthOnAnyError(status, isRetry, endpoint) ==
  status >= 400 /\ ~isRetry /\ endpoint # LoginEndpoint

\* executeRequestWithRetry: status === 401 && !isRetry && endpoint !== login
ShouldReauth(status, isRetry, endpoint) ==
  status = 401 /\ ~isRetry /\ endpoint # LoginEndpoint

\* executeRequestWithRetry: if (status === 429) { if (isRetry) throw ... }
RateLimitRetryAlways(isRetry) == TRUE
RateLimitRetryAllowed(isRetry) == ~isRetry

\* a client that stores the cookies of every response
StoresCookiesOfAll(endpoint) == TRUE

\* executeRequestWithRetry: if (endpoint === '/api/login/Basic') extractAndStoreCookies
StoresCookies(endpoint) == endpoint = LoginEndpoint

\* the set-cookie header a response to a non-login request may carry
ResponseSetCookie == {NoSetCookie, <<CookieBlank>>}

\* a client that caches the payload of every GET, with or without a ttl
ShouldCacheEveryGet(method, ttl) == method = "GET"

\* executeRequestWithRetry: if (method === 'GET' && cacheInterval) cache.set(...)
ShouldCache(method, ttl) == method = "GET" /\ ttl # 0

\* destroy: if (this.loginIntervalId) clearInterval(this.loginIntervalId)
ClearsInterval(id) == id # NoTimer

\* ----------------------------------------------------- pieces of the handlers
\* executeSingleRequest for the call's own endpoint
SendReq(rec, retry) ==
  [rec EXCEPT !.pc = "fetch", !.isRetry = retry, !.ctx = "none", !.auth = NoAuth,
              !.rem = 0, !.hdrSecs = 0, !.waited = 0, !.sends = @ + 1,
              !.cookie = IF hist.watch THEN sessionCookies ELSE Empty]

\* the call ends: it returns (pc "done") or throws res (pc "failed")
Finish(rec, res) ==
  [rec EXCEPT !.pc = IF res = Ok THEN "done" ELSE "failed", !.result = res,
              !.ctx = "none", !.auth = NoAuth, !.rem = 0]

\* authenticate() -> post(login) -> makeRequest -> executeSingleRequest, up to the fetch
StartAuthenticate(rec, ctx) ==
  [rec EXCEPT !.pc = "loginFetch", !.ctx = ctx, !.auth = NoAuth, !.rem = 0,
              !.loginRetry = FALSE, !.logins = @ + 1]

\* authenticateWithRateLimit up to its first await, entered by the thread whose
\* record is rec: join the attempt in progress, or wait, or start an attempt
AwrlEntry(rec) ==
  LET r1 == [rec EXCEPT !.awrl = @ + 1]
      wait == RateLimitWait(sinceAuth)
  IN IF AuthAlreadyInProgress(authInProgress)
     THEN [rec |-> [r1 EXCEPT !.pc = "awaitAuth", !.ctx = "join",
                              !.auth = authInProgress, !.joined = TRUE],
           start |-> FALSE]
     ELSE IF wait > 0
     THEN [rec |-> [r1 EXCEPT !.pc = "rateWait", !.ctx = "awrl", !.rem = wait],
           start |-> FALSE]
     ELSE [rec |-> StartAuthenticate(r1, "awrl"), start |-> TRUE]

ApplyAwrl(t, e) ==
  /\ th' = [Cur EXCEPT ![t] = e.rec]
  /\ authInProgress' = IF e.start THEN t ELSE authInProgress
  /\ sinceAuth' = IF e.start THEN 0 ELSE sinceAuth

\* what the caller of an authentication does when it has completed with res:
\* makeRequest sends the request, executeRequestWithRetry sends it again,
\* authenticate() of the host, startLoginProcess and the timer callback end
AfterAuth(t, rec, res) ==
  LET r1 == [rec EXCEPT !.reauth = res]
  IN IF t \in Reqs /\ res = Ok /\ rec.ctx = "ensure" THEN SendReq(rec, FALSE)
     ELSE IF t \in Reqs /\ res = Ok /\ rec.ctx \in {"awrl", "join"} THEN SendReq(r1, TRUE)
     ELSE IF rec.ctx \in {"awrl", "join"} THEN Finish(r1, res)
     ELSE Finish(rec, res)

\* startLoginProcess after its initial login has ended with res: the try/catch
\* logs the error, so the setInterval call is reached either way
ReachesSetIntervalOnSuccess(res) == res = Ok
ReachesSetInterval(res) == TRUE

\* authenticate() of thread t completes with res: the promise settles, the
\* finally of authenticateWithRateLimit runs, the awaiting callers go on;
\* startLoginProcess then arms the periodic timer
CompleteAuth(t, res) ==
  /\ authInProgress' = IF th[t].ctx = "awrl" THEN NoAuth ELSE authInProgress
  /\ th' = [u \in Procs |->
             IF u = t \/ (Cur[u].pc = "awaitAuth" /\ Cur[u].auth = t)
             THEN AfterAuth(u, Cur[u], res) ELSE Cur[u]]
  /\ IF t = Ctor /\ ReachesSetInterval(res)
     THEN /\ loginIntervalId' = TimerHandle
          /\ interval' = [armed |-> TRUE, rem |-> loginInterval]
     ELSE UNCHANGED <<loginIntervalId, interval>>

\* ------------------------------------------------------------------- state
\* new HttpClient(...): the constructor has run startLoginProcess up to the
\* fetch of the initial login
InitialLogin ==
  [IdleThread EXCEPT !.pc = "loginFetch", !.ctx = "awrl", !.logins = 1, !.awrl = 1]

ConstructedWith(h) ==
  /\ sessionCookies = Empty
  /\ sinceAuth = 0
  /\ authInProgress = Ctor
  /\ loginIntervalId = NoTimer
  /\ interval = [armed |-> FALSE, rem |-> 0]
  /\ cache = [e \in Endpoints |-> NoEntry]
  /\ th = [t \in Procs |-> IF t = Ctor THEN InitialLogin ELSE IdleThread]
  /\ hist = h

Constructed == ConstructedWith(InitHist)

\* ----------------------------------------------------------------- actions
\* a host call can start when one of the MaxCalls slots is free (the lowest)
FreeSlot(t) ==
  /\ th[t].pc \in EndPcs
  /\ \A u \in Reqs : u < t => th[u].pc \notin EndPcs

\* makeRequest up to its first await that needs the network
MakeRequest(t, method, ep, ttl) ==
  LET rec == [IdleThread EXCEPT !.method = method, !.endpoint = ep, !.ttl = ttl,
                                !.fresh = hist.pristine]
  IN /\ FreeSlot(t)
     /\ th' = [Cur EXCEPT ![t] =
          IF CacheHit(method, ep, ttl) THEN Finish(rec, Ok)
          ELSE IF NeedsAuth(sessionCookies)
          THEN StartAuthenticate([rec EXCEPT !.foundEmpty = TRUE], "ensure")
          ELSE SendReq(rec, FALSE)]
     /\ hist' = NoteHostCall(hist)
     /\ UNCHANGED <<sessionCookies, sinceAuth, authInProgress, loginIntervalId,
                    interval, cache, faultsLeft, ticksLeft>>
     /\ UNCHANGED accVars

\* get(endpoint, cacheInterval)
Get(t, ep, ttl) == MakeRequest(t, "GET", ep, ttl)

\* post(endpoint, body) to an endpoint other than the login endpoint
Post(t, ep) == MakeRequest(t, "POST", ep, 0)

\* authenticate() called by the host
Authenticate(t) ==
  /\ FreeSlot(t)
  /\ th' = [Cur EXCEPT ![t] = StartAuthenticate(
               [IdleThread EXCEPT !.method = "POST", !.endpoint = LoginEndpoint],
               "public")]
  /\ hist' = NoteHostCall(hist)
  /\ UNCHANGED <<sessionCookies, sinceAuth, authInProgress, loginIntervalId,
                 interval, cache, faultsLeft, ticksLeft>>
  /\ UNCHANGED accVars

NoteStatus(rec, status) ==
  IF rec.isRetry THEN [rec EXCEPT !.st2 = status] ELSE [rec EXCEPT !.st1 = status]

\* the gateway answers with something that is not a clean success
Fault ==
  /\ faultsLeft > 0
  /\ faultsLeft' = faultsLeft - 1

\* the fetch of the call's own request fails (network error, 10 s abort)
FetchNetError(t) ==
  /\ th[t].pc = "fetch"
  /\ Fault
  /\ th' = [Cur EXCEPT ![t] = Finish(th[t], TransportError)]
  /\ UNCHANGED <<sessionCookies, sinceAuth, authInProgress, loginIntervalId,
                 interval, cache, ticksLeft, hist>>
  /\ UNCHANGED accVars

\* status 2xx and response.json() resolves: cache.set for a GET with a ttl,
\* return data (nothing shared is read or written between the two awaits)
FetchOk(t) ==
  /\ th[t].pc = "fetch"
  /\ th' = [Cur EXCEPT ![t] = Finish(NoteStatus(th[t], 200), Ok)]
  /\ \E hdr \in ResponseSetCookie :
        sessionCookies' = IF StoresCookies(th[t].endpoint)
                          THEN ExtractCookies(hdr, sessionCookies) ELSE sessionCookies
  /\ cache' = IF ShouldCache(th[t].method, th[t].ttl)
              THEN [cache EXCEPT ![th[t].endpoint] = [data |-> th[t].endpoint, age |-> 0]]
              ELSE cache
  /\ UNCHANGED <<sinceAuth, authInProgress, loginIntervalId,
                 interval, faultsLeft, ticksLeft, hist>>
  /\ UNCHANGED accVars

\* status 2xx but response.json() rejects (the body is not JSON)
FetchJsonFail(t) ==
  /\ th[t].pc = "fetch"
  /\ Fault
  /\ th' = [Cur EXCEPT ![t] = Finish(NoteStatus(th[t], 200), JsonError)]
  /\ UNCHANGED <<sessionCookies, sinceAuth, authInProgress, loginIntervalId,
                 interval, cache, ticksLeft, hist>>
  /\ UNCHANGED accVars

\* status 429: fail on a retry, else wait retry-after and send again
Fetch429(t, h) ==
  /\ th[t].pc = "fetch"
  /\ Fault
  /\ th' = [Cur EXCEPT ![t] =
       IF RateLimitRetryAllowed(th[t].isRetry)
       THEN [NoteStatus(th[t], 429) EXCEPT !.pc = "wait429",
                                           !.rem = RetryWaitMs(h.text),
                                           !.waited = RetryWaitMs(h.text),
                                           !.hdrSecs = h.secs]
       ELSE Finish(NoteStatus(th[t], 429), RateLimitError)]
  /\ UNCHANGED <<sessionCookies, sinceAuth, authInProgress, loginIntervalId,
                 interval, cache, ticksLeft, hist>>
  /\ UNCHANGED accVars

\* the retry-after wait is over: executeRequestWithRetry(..., isRetry = true)
Wait429Fire(t) ==
  /\ th[t].pc = "wait429"
  /\ th[t].rem = 0
  /\ th' = [Cur EXCEPT ![t] = SendReq(th[t], TRUE)]
  /\ UNCHANGED <<sessionCookies, sinceAuth, authInProgress, loginIntervalId,
                 interval, cache, faultsLeft, ticksLeft, hist>>
  /\ UNCHANGED accVars

\* status 401: first send of a non-login request re-authenticates, a retry fails
Fetch401(t) ==
  /\ th[t].pc = "fetch"
  /\ Fault
  /\ IF ShouldReauth(401, th[t].isRetry, th[t].endpoint)
     THEN ApplyAwrl(t, AwrlEntry(NoteStatus(th[t], 401)))
     ELSE /\ th' = [Cur EXCEPT ![t] = Finish(NoteStatus(th[t], 401), HttpError(401))]
          /\ UNCHANGED <<authInProgress, sinceAuth>>
  /\ UNCHANGED <<sessionCookies, loginIntervalId, interval, cache, ticksLeft, hist>>
  /\ UNCHANGED accVars

\* any other status that is not 2xx: throw new Error(`HTTP ${status}: ...`)
FetchError(t, status) ==
  /\ th[t].pc = "fetch"
  /\ Fault
  /\ IF ShouldReauth(status, th[t].isRetry, th[t].endpoint)
     THEN ApplyAwrl(t, AwrlEntry(NoteStatus(th[t], status)))
     ELSE /\ th' = [Cur EXCEPT ![t] = Finish(NoteStatus(th[t], status), HttpError(status))]
          /\ UNCHANGED <<authInProgress, sinceAuth>>
  /\ UNCHANGED <<sessionCookies, loginIntervalId, interval, cache, ticksLeft, hist>>
  /\ UNCHANGED accVars

\* the rate-limit wait of authenticateWithRateLimit is over: start the attempt
RateWaitFire(t) ==
  /\ th[t].pc = "rateWait"
  /\ th[t].rem = 0
  /\ th' = [Cur EXCEPT ![t] = StartAuthenticate(th[t], "awrl")]
  /\ authInProgress' = t
  /\ sinceAuth' = 0
  /\ UNCHANGED <<sessionCookies, loginIntervalId, interval, cache, faultsLeft,
                 ticksLeft, hist>>
  /\ UNCHANGED accVars

\* the results with which a login request can fail at once
LoginFailures(loginRetry) ==
  {TransportError, HttpError(401)} \cup (IF loginRetry THEN {RateLimitError} ELSE {})

\* the login request gets no response, or a status that is neither 2xx nor a
\* first 429: authenticate() rejects
LoginFail(t, res) ==
  /\ th[t].pc = "loginFetch"
  /\ res \in LoginFailures(th[t].loginRetry)
  /\ Fault
  /\ IF res = HttpError(401) /\ ShouldReauth(401, th[t].loginRetry, LoginEndpoint)
     THEN /\ ApplyAwrl(t, AwrlEntry(th[t]))
          /\ UNCHANGED <<loginIntervalId, interval>>
     ELSE /\ CompleteAuth(t, res)
          /\ UNCHANGED sinceAuth
  /\ UNCHANGED <<sessionCookies, cache, ticksLeft, hist>>
  /\ UNCHANGED accVars

\* the first login request gets 429: wait retry-after, then send it again
Login429(t, h) ==
  /\ th[t].pc = "loginFetch"
  /\ RateLimitRetryAllowed(th[t].loginRetry)
  /\ Fault
  /\ th' = [Cur EXCEPT ![t] = [th[t] EXCEPT !.pc = "loginWait429",
                                             !.rem = RetryWaitMs(h.text)]]
  /\ UNCHANGED <<sessionCookies, sinceAuth, authInProgress, loginIntervalId,
                 interval, cache, ticksLeft, hist>>
  /\ UNCHANGED accVars

\* the retry-after wait of a login request is over: send it again
LoginWaitFire(t) ==
  /\ th[t].pc = "loginWait429"
  /\ th[t].rem = 0
  /\ th' = [Cur EXCEPT ![t] = [th[t] EXCEPT !.pc = "loginFetch", !.loginRetry = TRUE,
                                             !.logins = @ + 1]]
  /\ UNCHANGED <<sessionCookies, sinceAuth, authInProgress, loginIntervalId,
                 interval, cache, faultsLeft, ticksLeft, hist>>
  /\ UNCHANGED accVars

\* the login request gets 2xx: extractAndStoreCookies, then await response.json()
LoginOk(t, hdr) ==
  /\ th[t].pc = "loginFetch"
  /\ IF hdr \in BadSetCookie THEN Fault ELSE UNCHANGED faultsLeft
  /\ sessionCookies' = ExtractCookies(hdr, sessionCookies)
  /\ hist' = [hist EXCEPT !.tokenAge = IF hdr = NoSetCookie THEN @ ELSE 0]
  /\ th' = [Cur EXCEPT ![t] = [th[t] EXCEPT !.pc = "loginJson"]]
  /\ UNCHANGED <<sinceAuth, authInProgress, loginIntervalId, interval, cache,
                 ticksLeft>>
  /\ UNCHANGED accVars

\* the login response body is read: authenticate() resolves, or rejects when the
\* body is not JSON
LoginJsonDone(t, res) ==
  /\ th[t].pc = "loginJson"
  /\ res \in {Ok, JsonError}
  /\ IF res = Ok THEN UNCHANGED faultsLeft ELSE Fault
  /\ CompleteAuth(t, res)
  /\ UNCHANGED <<sessionCookies, sinceAuth, cache, ticksLeft, hist>>
  /\ UNCHANGED accVars

\* the setInterval timer of startLoginProcess fires: its callback enters
\* authenticateWithRateLimit
IntervalFire ==
  /\ interval.armed
  /\ interval.rem = 0
  /\ th[Tmr].pc \in EndPcs
  /\ interval' = [armed |-> TRUE, rem |-> loginInterval]
  /\ ApplyAwrl(Tmr, AwrlEntry(IdleThread))
  /\ UNCHANGED <<sessionCookies, loginIntervalId, cache, faultsLeft, ticksLeft, hist>>
  /\ UNCHANGED accVars

\* destroy()
Destroy ==
  /\ ~hist.destroyed
  /\ hist' = [hist EXCEPT !.destroyed = TRUE, !.pristine = FALSE, !.tokenAge = 0]
  /\ interval' = IF ClearsInterval(loginIntervalId) THEN [armed |-> FALSE, rem |-> 0]
                 ELSE interval
  /\ loginIntervalId' = NoTimer
  /\ cache' = [e \in Endpoints |-> NoEntry]
  /\ sessionCookies' = Empty
  /\ th' = Cur
  /\ UNCHANGED <<sinceAuth, authInProgress, faultsLeft, ticksLeft>>
  /\ UNCHANGED accVars

\* clearSession()
ClearSession ==
  /\ sessionCookies' = Empty
  /\ hist' = [hist EXCEPT !.pristine = FALSE, !.tokenAge = 0]
  /\ th' = Cur
  /\ UNCHANGED <<sinceAuth, authInProgress, loginIntervalId, interval, cache,
                 faultsLeft, ticksLeft>>
  /\ UNCHANGED accVars

\* ------------------------------------------------------------------- clock
\* the delays of the timers that are set. The periodic timer is the last one
\* due (every other delay is shorter than loginInterval by hours), so its
\* remaining delay is kept as loginInterval until time passes up to it.
CallDelays == {th[t].rem : t \in {u \in Procs : th[u].pc \in WaitPcs}}
Delays == CallDelays \cup (IF interval.armed THEN {interval.rem} ELSE {})

\* some age is still below the value from which the code treats it the same
AgesMatter ==
  \/ sinceAuth < minInterval
  \/ \E e \in Endpoints : cache[e] # NoEntry /\ cache[e].age < MaxTtl
  \/ \E t \in Reqs : Active(t) /\ th[t].ttl # 0 /\ th[t].startAge < th[t].ttl

\* some call awaits the network (a fetch ends within its 10 s timeout)
OnTheWire == \E t \in Procs : th[t].pc \in {"fetch", "loginFetch", "loginJson"}

\* long: the execution goes on until the periodic timer is due, once no call
\* awaits the network
Steps(long) ==
  CallDelays
    \cup (IF long /\ interval.armed /\ ~OnTheWire THEN {interval.rem} ELSE {})
    \cup (IF AgesMatter /\ ticksLeft > 0 THEN {Quantum} ELSE {})

\* time passes until the next timer is due, at most one Quantum while an age
\* matters; a timer that is due fires before time passes
Tick(long) ==
  /\ 0 \notin Delays
  /\ Steps(long) # {}
  /\ LET d == CHOOSE x \in Steps(long) : \A y \in Steps(long) : x <= y
     IN /\ sinceAuth' = Min(sinceAuth + d, minInterval)
        /\ cache' = [e \in Endpoints |->
                      IF cache[e] = NoEntry THEN NoEntry
                      ELSE [cache[e] EXCEPT !.age = Min(@ + d, MaxTtl)]]
        /\ interval' = IF interval.armed /\ d = interval.rem
                       THEN [interval EXCEPT !.rem = 0] ELSE interval
        /\ th' = [t \in Procs |->
                   IF th[t].pc \in WaitPcs THEN [th[t] EXCEPT !.rem = @ - d]
                   ELSE IF Active(t) /\ th[t].ttl # 0
                   THEN [th[t] EXCEPT !.startAge = Min(@ + d, th[t].ttl)]
                   ELSE Cur[t]]
        /\ ticksLeft' = IF d \in CallDelays \/ d # Quantum THEN ticksLeft
                        ELSE ticksLeft - 1
        /\ hist' = IF ~hist.watch THEN hist
                   ELSE LET toTimer == interval.armed /\ d = interval.rem
                            \* the time that passes: up to the periodic timer, that
                            \* is its period less the time since it was set
                            passed == IF toTimer THEN d - hist.sinceArm ELSE d
                        IN [hist EXCEPT
                              !.tokenAge = IF sessionCookies # Empty
                                           THEN Min(@ + passed, StaleAge) ELSE @,
                              !.sinceArm = IF toTimer \/ ~interval.armed THEN 0
                                           ELSE Min(@ + d, loginInterval)]
  /\ UNCHANGED <<sessionCookies, authInProgress, loginIntervalId, faultsLeft>>
  /\ UNCHANGED accVars

\* ------------------------------------------------------------- accessories
\* A gateway response is seen by a getter as the one field it reads; a field
\* is a number, a string, or is missing (undefined).
Undefined == [def |-> FALSE, n |-> 0, s |-> ""]
Num(n) == [def |-> TRUE, n |-> n, s |-> ""]
Str(s) == [def |-> TRUE, n |-> 0, s |-> s]

\* JavaScript  x || d  on a numeric field: undefined and 0 are falsy
OrDefault(x, d) == IF x.def /\ x.n # 0 THEN x.n ELSE d

Abs(n) == IF n < 0 THEN 0 - n ELSE n
Max(a, b) == IF a < b THEN b ELSE a

\* percentages are carried in tenths of a percent
Tenths == 10
\* Math.round of a non-negative number of tenths
Round(t) == (t + 5) \div Tenths

\* HomeKit characteristic values
BATTERY_LEVEL_NORMAL == 0
BATTERY_LEVEL_LOW == 1
NOT_CHARGING == 0
CHARGING == 1
CONTACT_DETECTED == 0
CONTACT_NOT_DETECTED == 1

DefaultPercentage == 50
DefaultLowBattery == 20
DefaultThreshold == 50
NoiseFloor == 50
\* illuminance is carried in units of 0.0001 lux
LuxUnits == 10000
MinLux == 1
MaxLux == 100000 * LuxUnits

Accs == {"battery", "gridStatus", "feeding", "pulling", "load"}

Getters == {"getBatteryLevel", "getChargingState", "getStatusLowBattery",
            "getGridStatus", "feeding.getSensorState", "pulling.getSensorState",
            "getCurrentPower"}

\* the accessory a getter belongs to
Owner(g) ==
  CASE g \in {"getBatteryLevel", "getChargingState", "getStatusLowBattery"} -> "battery"
    [] g = "getGridStatus" -> "gridStatus"
    [] g = "feeding.getSensorState" -> "feeding"
    [] g = "pulling.getSensorState" -> "pulling"
    [] g = "getCurrentPower" -> "load"

\* the getters one callback of the polling timer awaits, in order
TickGetters(a) ==
  CASE a = "battery" -> <<"getBatteryLevel", "getChargingState", "getStatusLowBattery">>
    [] a = "gridStatus" -> <<"getGridStatus">>
    [] a = "feeding" -> <<"feeding.getSensorState">>
    [] a = "pulling" -> <<"pulling.getSensorState">>
    [] a = "load" -> <<"getCurrentPower">>

\* the class has a destroy() method
HasDestroy(a) == a # "gridStatus"

\* startPolling keeps the handle setInterval returns in this.pollingIntervalId
StoresHandle(a) == a # "gridStatus"

\* the value of the getter's field after construction
InitialStored(g) == IF g = "getBatteryLevel" THEN DefaultPercentage ELSE 0

\* getBatteryLevel: Math.round(data.percentage || 50)
BatteryLevel(pct) == Round(OrDefault(pct, DefaultPercentage * Tenths))

\* a comparison with the noise floor that is not strict
ChargingStateInclusive(bp) ==
  IF OrDefault(bp, 0) >= NoiseFloor THEN CHARGING ELSE NOT_CHARGING

\* getChargingState: battery.instant_power || 0, CHARGING above the noise floor
ChargingState(bp) ==
  IF OrDefault(bp, 0) > NoiseFloor THEN CHARGING ELSE NOT_CHARGING

\* getStatusLowBattery: (percentage || 50) <= (config.lowBattery || 20)
StatusLowBattery(pct, low) ==
  IF OrDefault(pct, DefaultPercentage * Tenths) <= OrDefault(low, DefaultLowBattery) * Tenths
  THEN BATTERY_LEVEL_LOW ELSE BATTERY_LEVEL_NORMAL

\* a comparison of grid_status that ignores the case of the text
GridStatusAnyCase(gs) ==
  IF gs.def /\ gs.s \in {"SystemGridConnected", "systemgridconnected"}
  THEN CONTACT_DETECTED ELSE CONTACT_NOT_DETECTED

\* getGridStatus: data.grid_status === 'SystemGridConnected'
GridStatus(gs) ==
  IF gs.def /\ gs.s = "SystemGridConnected" THEN CONTACT_DETECTED
  ELSE CONTACT_NOT_DETECTED

\* config.gridSensorThreshold || 50
SensorThreshold(thr) == OrDefault(thr, DefaultThreshold)

\* getSensorState: the condition of the sensor on site.instant_power || 0
ConditionMet(sensorType, sp, thr) ==
  LET sitePower == OrDefault(sp, 0)
      threshold == SensorThreshold(thr)
  IN IF sensorType = "feeding" THEN sitePower < 0 - threshold
     ELSE sitePower > threshold

SensorState(sensorType, sp, thr) ==
  IF ConditionMet(sensorType, sp, thr) THEN CONTACT_DETECTED
  ELSE CONTACT_NOT_DETECTED

\* the decimal text of a natural number, as a threshold is written on the
\* command line or in GRID_THRESHOLD
DigitChar(d) ==
  CASE d = 0 -> "0" [] d = 1 -> "1" [] d = 2 -> "2" [] d = 3 -> "3" [] d = 4 -> "4"
    [] d = 5 -> "5" [] d = 6 -> "6" [] d = 7 -> "7" [] d = 8 -> "8" [] OTHER -> "9"

RECURSIVE DecimalText(_)
DecimalText(n) ==
  IF n < 10 THEN <<DigitChar(n)>> ELSE DecimalText(n \div 10) \o <<DigitChar(n % 10)>>

\* validate-grid-sensors.js: parseInt(GRID_THRESHOLD || argv[4] || '50', 10)
ScriptThreshold(text) ==
  LET p == ParseInt(IF text = Empty THEN DecimalText(DefaultThreshold) ELSE text)
  IN p.n

\* validate-grid-sensors.js: isFeedingToGrid and isPullingFromGrid on
\* site.instant_power || 0, as the sensor state they are printed as
ScriptSensorState(sensorType, sp, text) ==
  LET sitePower == OrDefault(sp, 0)
      threshold == ScriptThreshold(text)
      met == IF sensorType = "feeding" THEN sitePower < 0 - threshold
             ELSE sitePower > threshold
  IN IF met THEN CONTACT_DETECTED ELSE CONTACT_NOT_DETECTED

\* getCurrentPower: Math.max(0.0001, Math.min(100000, |instant_power || 0| / 10))
CurrentPower(p) ==
  Max(MinLux, Min(MaxLux, Abs(OrDefault(p, 0)) * (LuxUnits \div 10)))

\* the value the try block of getter g stores from the field v of the response
Computed(g, v, cfg) ==
  CASE g = "getBatteryLevel" -> BatteryLevel(v)
    [] g = "getChargingState" -> ChargingState(v)
    [] g = "getStatusLowBattery" -> StatusLowBattery(v, cfg.lowBattery)
    [] g = "getGridStatus" -> GridStatus(v)
    [] g = "feeding.getSensorState" -> SensorState("feeding", v, cfg.gridSensorThreshold)
    [] g = "pulling.getSensorState" -> SensorState("pulling", v, cfg.gridSensorThreshold)
    [] g = "getCurrentPower" -> CurrentPower(v)

\* the request of a getter settles: resolved with data or rejected
Resolved(v) == [ok |-> TRUE, v |-> v]
Rejected == [ok |-> FALSE, v |-> Undefined]

\* a catch block that would put the field back to its initial value
StoredAfterReset(g, resp, cur, cfg) ==
  IF resp.ok THEN Computed(g, resp.v, cfg) ELSE InitialStored(g)

\* the field of getter g when its awaited request settles with resp and the
\* field holds cur: the try block stores, the catch block leaves it
StoredAfter(g, resp, cur, cfg) ==
  IF resp.ok THEN Computed(g, resp.v, cfg) ELSE cur

\* the getter returns this.<field> on both paths
Returned(g, resp, cur, cfg) == StoredAfter(g, resp, cur, cfg)

\* a timer that a failed callback would stop
TimerStoppedByFailure(isSet, failed) == isSet /\ ~failed

\* setInterval keeps its timer set whatever the callback did
TimerAfterCallback(isSet, failed) == isSet

\* what a step of an accessory did
NoEvent == [kind |-> "none", acc |-> "", g |-> "", resp |-> Rejected, ret |-> 0,
            failed |-> FALSE, published |-> FALSE, requested |-> FALSE,
            afterDestroy |-> FALSE]

\* a callback of a polling timer that has just been called: it awaits its
\* first getter
NewTick == [step |-> 1, failed |-> FALSE]

\* the accessories discoverDevices creates: the battery always, the others
\* unless their option is false
Present(cfg) ==
  {"battery"} \cup (IF cfg.enableGridStatus THEN {"gridStatus"} ELSE {})
              \cup (IF cfg.enableGridPowerSensors THEN {"feeding", "pulling"} ELSE {})
              \cup (IF cfg.enablePowerMeters THEN {"load"} ELSE {})

\* the number of the three options that are on
Enabled(cfg) ==
  Cardinality({o \in {"enableGridStatus", "enableGridPowerSensors", "enablePowerMeters"} :
                cfg[o]})

\* ---------------------------------------------------------------- platform
\* the names from which api.hap.uuid.generate makes the accessory UUIDs, in the
\* order of discoverDevices, and a UUID that no version of discovery creates
Uuids == {"powerwall-main", "powerwall-grid-status", "powerwall-grid-feeding-sensor",
          "powerwall-grid-pulling-sensor", "powermeter-solar", "powermeter-grid",
          "powermeter-load"}
StaleUuid == "stale"

\* the accessories that the create function number k of discoverDevices makes
CreateGroup(k) ==
  CASE k = 1 -> {"powerwall-main"}
    [] k = 2 -> {"powerwall-grid-status"}
    [] k = 3 -> {"powerwall-grid-feeding-sensor", "powerwall-grid-pulling-sensor"}
    [] OTHER -> {"powermeter-solar", "powermeter-grid", "powermeter-load"}
CreateCount == 4

\* discoverDevices: if (this.config.enableX !== false)
GroupEnabled(k, cfg) ==
  CASE k = 1 -> TRUE
    [] k = 2 -> cfg.enableGridStatus
    [] k = 3 -> cfg.enableGridPowerSensors
    [] OTHER -> cfg.enablePowerMeters

\* the accessory handler that is constructed for a UUID
AccOf(u) ==
  CASE u = "powerwall-main" -> "battery"
    [] u = "powerwall-grid-status" -> "gridStatus"
    [] u = "powerwall-grid-feeding-sensor" -> "feeding"
    [] u = "powerwall-grid-pulling-sensor" -> "pulling"
    [] u = "powermeter-load" -> "load"
    [] OTHER -> "meter"

\* a platform that registers every accessory it creates a handler for
RegistersRestoredToo(existingAccessory) == TRUE
\* createXAccessory: if (existingAccessory) {...} else {... registerPlatformAccessories}
Registers(existingAccessory) == ~existingAccessory

\* a platform that goes on whatever the connectivity check said
GoesOnWithoutConnection(isConnected) == TRUE
\* discoverDevices: if (!isConnected) { log; return }
GoesOn(isConnected) == isConnected

\* testConnection: try { await getSystemStatus(); return true } catch { return false }
TestConnection(res) == res = Ok

\* the results of the state-of-energy request
SoeResults == {Ok, TransportError, RateLimitError, JsonError, HttpError(401), HttpError(500)}

\* removeOrphanedAccessories: the restored accessories not in discoveredCacheUUIDs
Orphaned(accessories, discovered) == {u \in accessories : u \notin discovered}

\* the platform before its constructor has run, with the configuration having
\* ip and password or not
NewPlatform(ip, password) ==
  [ phase |-> "new", ip |-> ip, password |-> password, client |-> FALSE,
    listening |-> FALSE, next |-> 1, accessories |-> {}, discovered |-> {},
    handlers |-> [u \in Uuids |-> 0], registered |-> [u \in Uuids |-> 0],
    unregistered |-> {}, unregisterCalls |-> 0 ]

\* the first create function from number k on that the configuration enables,
\* CreateCount + 1 when there is none
RECURSIVE NextGroup(_, _)
NextGroup(k, cfg) ==
  IF k > CreateCount \/ GroupEnabled(k, cfg) THEN k ELSE NextGroup(k + 1, cfg)

\* the platform as the specifications of the client and of the accessories
\* find it: discovery has run with nothing restored
LaunchedPlatform(cfg) ==
  LET made == UNION {CreateGroup(k) : k \in {j \in 1..CreateCount : GroupEnabled(j, cfg)}}
      once == [u \in Uuids |-> IF u \in made THEN 1 ELSE 0]
  IN [NewPlatform(TRUE, TRUE) EXCEPT !.phase = "done", !.client = TRUE,
                                     !.listening = TRUE, !.next = CreateCount + 1,
                                     !.discovered = made, !.handlers = once,
                                     !.registered = once]

\* the accessories after their constructors (startPolling included)
AccessoriesConstructed ==
  /\ plat = LaunchedPlatform(config)
  /\ stored = [g \in Getters |-> InitialStored(g)]
  /\ pollingIntervalId = [a \in Accs |-> IF a \in Present(config) /\ StoresHandle(a)
                                          THEN TimerHandle ELSE NoTimer]
  /\ pollTimer = [a \in Accs |-> a \in Present(config)]
  /\ ticks = [a \in Accs |-> <<>>]
  /\ reads = {}
  /\ removed = {}
  /\ lastGood = [g \in Getters |-> InitialStored(g)]
  /\ ev = NoEvent

\* the platform configuration used by the specifications of the client
DefaultConfig == [lowBattery |-> Undefined, gridSensorThreshold |-> Undefined,
                  enableGridStatus |-> TRUE, enableGridPowerSensors |-> TRUE,
                  enablePowerMeters |-> TRUE]

\* the sequence q without its k-th element
Without(q, k) == [i \in 1..(Len(q) - 1) |-> IF i < k THEN q[i] ELSE q[i + 1]]

\* the host reads a characteristic: onGet calls getter g, which sends its
\* request and awaits it
OnGet(g) ==
  /\ Owner(g) \in Present(config)
  /\ g \notin reads
  /\ Cardinality(reads) < MaxReads
  /\ reads' = reads \cup {g}
  /\ ev' = NoEvent
  /\ UNCHANGED <<config, stored, pollingIntervalId, pollTimer, ticks, removed, lastGood>>
  /\ UNCHANGED httpVars

\* the request of a getter called by the host settles: the getter stores and
\* returns, or catches and returns
OnGetSettle(g, resp) ==
  /\ g \in reads
  /\ reads' = reads \ {g}
  /\ stored' = [stored EXCEPT ![g] = StoredAfter(g, resp, stored[g], config)]
  /\ lastGood' = [lastGood EXCEPT ![g] = IF resp.ok THEN Computed(g, resp.v, config) ELSE @]
  /\ ev' = [NoEvent EXCEPT !.kind = "get", !.acc = Owner(g), !.g = g, !.resp = resp,
                           !.ret = Returned(g, resp, stored[g], config),
                           !.afterDestroy = Owner(g) \in removed]
  /\ UNCHANGED <<config, pollingIntervalId, pollTimer, ticks, removed>>
  /\ UNCHANGED httpVars

\* the polling timer of accessory a fires: its callback calls the first getter
PollFire(a, overlap) ==
  /\ pollTimer[a]
  /\ Len(ticks[a]) < overlap
  /\ ticks' = [ticks EXCEPT ![a] = Append(@, NewTick)]
  /\ ev' = [NoEvent EXCEPT !.kind = "tickStart", !.acc = a, !.requested = TRUE,
                           !.afterDestroy = a \in removed]
  /\ UNCHANGED <<config, stored, pollingIntervalId, pollTimer, reads, removed, lastGood>>
  /\ UNCHANGED httpVars

\* the request awaited by the k-th callback in progress of accessory a settles:
\* the getter returns, the callback publishes the value with
\* updateCharacteristic and calls its next getter, or returns after the last
PollSettle(a, k, resp) ==
  /\ k \in 1..Len(ticks[a])
  /\ LET tick == ticks[a][k]
         g == TickGetters(a)[tick.step]
         last == tick.step = Len(TickGetters(a))
         failed == tick.failed \/ ~resp.ok
     IN /\ stored' = [stored EXCEPT ![g] = StoredAfter(g, resp, stored[g], config)]
        /\ lastGood' = [lastGood EXCEPT ![g] =
                          IF resp.ok THEN Computed(g, resp.v, config) ELSE @]
        /\ ticks' = [ticks EXCEPT ![a] =
                       IF last THEN Without(@, k)
                       ELSE [@ EXCEPT ![k] = [step |-> tick.step + 1, failed |-> failed]]]
        /\ pollTimer' = [pollTimer EXCEPT ![a] =
                           IF last THEN TimerAfterCallback(@, failed) ELSE @]
        /\ ev' = [NoEvent EXCEPT !.kind = IF last THEN "tickEnd" ELSE "tickStep",
                                 !.acc = a, !.g = g, !.resp = resp,
                                 !.ret = Returned(g, resp, stored[g], config),
                                 !.failed = failed, !.published = TRUE,
                                 !.requested = ~last,
                                 !.afterDestroy = a \in removed]
  /\ UNCHANGED <<config, pollingIntervalId, reads, removed>>
  /\ UNCHANGED httpVars

\* destroy() of accessory a: clearInterval when the handle is kept
DestroyAccessory(a) ==
  /\ a \in Present(config)
  /\ HasDestroy(a)
  /\ IF pollingIntervalId[a] # NoTimer
     THEN /\ pollTimer' = [pollTimer EXCEPT ![a] = FALSE]
          /\ pollingIntervalId' = [pollingIntervalId EXCEPT ![a] = NoTimer]
     ELSE UNCHANGED <<pollTimer, pollingIntervalId>>
  /\ removed' = removed \cup {a}
  /\ ev' = [NoEvent EXCEPT !.kind = "destroy", !.acc = a]
  /\ UNCHANGED <<config, stored, ticks, reads, lastGood>>
  /\ UNCHANGED httpVars

\* ---------------------------------------------------------- specifications
\* SpecAuth: sessions, authentication and the 401/429 retries. The host makes
\* uncached requests to one endpoint; the execution is shorter than
\* loginInterval.
AuthEndpoints == {"/api/system_status/soe"}

InitAuth ==
  /\ Constructed
  /\ config = DefaultConfig
  /\ AccessoriesConstructed
  /\ faultsLeft = AuthFaults
  /\ ticksLeft = AuthTicks

NextAuth ==
  \/ \E t \in Reqs, ep \in AuthEndpoints : Get(t, ep, 0)
  \/ \E t \in Reqs, ep \in AuthEndpoints : Post(t, ep)
  \/ \E t \in Reqs : Authenticate(t)
  \/ \E t \in Reqs : FetchNetError(t)
  \/ \E t \in Reqs : FetchOk(t)
  \/ \E t \in Reqs : FetchJsonFail(t)
  \/ \E t \in Reqs, h \in RetryAfterHeaders : Fetch429(t, h)
  \/ \E t \in Reqs : Wait429Fire(t)
  \/ \E t \in Reqs : Fetch401(t)
  \/ \E t \in Reqs, s \in ErrorStatuses : FetchError(t, s)
  \/ \E t \in Procs : RateWaitFire(t)
  \/ \E t \in Procs, res \in LoginFailures(TRUE) : LoginFail(t, res)
  \/ \E t \in Procs, h \in RetryAfterHeaders : Login429(t, h)
  \/ \E t \in Procs : LoginWaitFire(t)
  \/ \E t \in Procs : \E hdr \in {GoodSetCookie(sessionCookies)} \cup BadSetCookie :
        LoginOk(t, hdr)
  \/ \E t \in Procs, res \in {Ok, JsonError} : LoginJsonDone(t, res)
  \/ Tick(FALSE)

SpecAuth == InitAuth /\ [][NextAuth]_vars

\* SpecCache: the response cache. The host makes cached and uncached requests
\* to two endpoints; the execution is shorter than loginInterval.
InitCache ==
  /\ Constructed
  /\ config = DefaultConfig
  /\ AccessoriesConstructed
  /\ faultsLeft = CacheFaults
  /\ ticksLeft = CacheTicks

NextCache ==
  \/ \E t \in Reqs, ep \in Endpoints, ttl \in TtlChoices : Get(t, ep, ttl)
  \/ \E t \in Reqs, ep \in PostEndpoints : Post(t, ep)
  \/ \E t \in Reqs : FetchOk(t)
  \/ \E t \in Reqs, s \in ErrorStatuses : FetchError(t, s)
  \/ \E t \in Procs, res \in LoginFailures(FALSE) : LoginFail(t, res)
  \/ \E t \in Procs : \E hdr \in {GoodSetCookie(sessionCookies)} : LoginOk(t, hdr)
  \/ \E t \in Procs : LoginJsonDone(t, Ok)
  \/ Tick(FALSE)

SpecCache == InitCache /\ [][NextCache]_vars

\* SpecLife: the periodic timer, clearSession() and destroy(). The host makes
\* requests to one endpoint; the execution goes on until the periodic timer is
\* due.
InitLife ==
  /\ Constructed
  /\ config = DefaultConfig
  /\ AccessoriesConstructed
  /\ faultsLeft = LifeFaults
  /\ ticksLeft = LifeTicks

NextLife ==
  \/ \E t \in Reqs, ep \in AuthEndpoints, ttl \in TtlChoices : Get(t, ep, ttl)
  \/ \E t \in Reqs : FetchOk(t)
  \/ \E t \in Procs, res \in LoginFailures(FALSE) : LoginFail(t, res)
  \/ \E t \in Procs : \E hdr \in {GoodSetCookie(sessionCookies)} \cup BadSetCookie :
        LoginOk(t, hdr)
  \/ \E t \in Procs, res \in {Ok, JsonError} : LoginJsonDone(t, res)
  \/ IntervalFire
  \/ Destroy
  \/ ClearSession
  \/ Tick(TRUE)

SpecLife == InitLife /\ [][NextLife]_vars

\* SpecSession: the session token. The host makes one request at a time and
\* calls clearSession() and destroy(); every login response that carries a
\* token carries one that no request in progress was sent with; the tokens
\* sent and the age of the stored token are kept in the history.
SessionCalls == {1}

CookieC == <<"c", "=", "3">>

\* the token a set-cookie header yields
Token(hdr) == JoinCookies(CookiePairs(hdr))

FreshSetCookie ==
  LET used == {sessionCookies} \cup {Cur[t].cookie : t \in SessionCalls}
  IN CHOOSE hdr \in {<<CookieA>>, <<CookieB>>, <<CookieC>>} : Token(hdr) \notin used

InitSession ==
  /\ ConstructedWith(WatchedHist)
  /\ config = DefaultConfig
  /\ AccessoriesConstructed
  /\ faultsLeft = SessionFaults
  /\ ticksLeft = SessionTicks

NextSession ==
  \/ \E t \in SessionCalls, ep \in AuthEndpoints : Get(t, ep, 0)
  \/ \E t \in SessionCalls, ep \in AuthEndpoints : Post(t, ep)
  \/ \E t \in SessionCalls : FetchOk(t)
  \/ \E t \in SessionCalls, h \in RetryAfterHeaders : Fetch429(t, h)
  \/ \E t \in SessionCalls : Wait429Fire(t)
  \/ \E t \in SessionCalls : Fetch401(t)
  \/ \E t \in SessionCalls, s \in ErrorStatuses : FetchError(t, s)
  \/ \E t \in Procs : RateWaitFire(t)
  \/ \E t \in Procs, res \in LoginFailures(FALSE) : LoginFail(t, res)
  \/ \E t \in Procs : \E hdr \in {FreshSetCookie} \cup BadSetCookie : LoginOk(t, hdr)
  \/ \E t \in Procs, res \in {Ok, JsonError} : LoginJsonDone(t, res)
  \/ IntervalFire
  \/ Destroy
  \/ ClearSession
  \/ Tick(TRUE)

SpecSession == InitSession /\ [][NextSession]_vars

\* SpecCookies: the gateway answers logins with every list of up to MaxCookies
\* Set-Cookie values; the host makes one request at a time
CookieValues == {CookieA, CookieB, CookieBlank}
SetCookieLists ==
  UNION {[1..n -> CookieValues] : n \in 0..MaxCookies}

InitCookies ==
  /\ Constructed
  /\ config = DefaultConfig
  /\ AccessoriesConstructed
  /\ faultsLeft = CookieFaults
  /\ ticksLeft = CookieTicks

NextCookies ==
  \/ \E t \in SessionCalls, ep \in AuthEndpoints : Get(t, ep, 0)
  \/ \E t \in SessionCalls : FetchOk(t)
  \/ \E t \in Procs, hdr \in SetCookieLists : LoginOk(t, hdr)
  \/ \E t \in Procs : LoginJsonDone(t, Ok)
  \/ IntervalFire
  \/ Tick(TRUE)

SpecCookies == InitCookies /\ [][NextCookies]_vars

\* SpecWrites: one host call at a time, GET with and without a ttl and POST,
\* answered with every kind of failure, also of the re-authentication
InitWrites ==
  /\ Constructed
  /\ config = DefaultConfig
  /\ AccessoriesConstructed
  /\ faultsLeft = WriteFaults
  /\ ticksLeft = WriteTicks

NextWrites ==
  \/ \E t \in SessionCalls, ep \in Endpoints, ttl \in TtlChoices : Get(t, ep, ttl)
  \/ \E t \in SessionCalls, ep \in PostEndpoints : Post(t, ep)
  \/ \E t \in SessionCalls : FetchOk(t)
  \/ \E t \in SessionCalls : FetchNetError(t)
  \/ \E t \in SessionCalls : FetchJsonFail(t)
  \/ \E t \in SessionCalls : Fetch401(t)
  \/ \E t \in SessionCalls, s \in ErrorStatuses : FetchError(t, s)
  \/ \E t \in Procs : RateWaitFire(t)
  \/ \E t \in Procs, res \in LoginFailures(FALSE) : LoginFail(t, res)
  \/ \E t \in Procs : \E hdr \in {GoodSetCookie(sessionCookies)} : LoginOk(t, hdr)
  \/ \E t \in Procs : LoginJsonDone(t, Ok)
  \/ Tick(FALSE)

SpecWrites == InitWrites /\ [][NextWrites]_vars

\* SpecLive: progress. The host makes one request at a time; every request
\* and every login request gets an answer (at the latest the 10 s abort),
\* every timer that is due fires, and time goes on.
InitLive ==
  /\ Constructed
  /\ config = DefaultConfig
  /\ AccessoriesConstructed
  /\ faultsLeft = LiveFaults
  /\ ticksLeft = LiveTicks

\* the request of thread t is answered
Answered(t) ==
  \/ FetchOk(t)
  \/ FetchNetError(t)
  \/ \E h \in RetryAfterHeaders : Fetch429(t, h)
  \/ Fetch401(t)
  \/ \E s \in ErrorStatuses : FetchError(t, s)

\* the login request of thread t is answered, or the body of its answer is read
LoginAnswered(t) ==
  \/ \E res \in LoginFailures(TRUE) : LoginFail(t, res)
  \/ \E h \in RetryAfterHeaders : Login429(t, h)
  \/ \E hdr \in {GoodSetCookie(sessionCookies)} : LoginOk(t, hdr)
  \/ \E res \in {Ok, JsonError} : LoginJsonDone(t, res)

\* a timer of thread t that is due fires
TimerFires(t) == Wait429Fire(t) \/ RateWaitFire(t) \/ LoginWaitFire(t)

NextLive ==
  \/ \E t \in SessionCalls, ep \in AuthEndpoints : Get(t, ep, 0)
  \/ \E t \in SessionCalls, ep \in AuthEndpoints : Post(t, ep)
  \/ \E t \in SessionCalls : Answered(t)
  \/ \E t \in Procs : LoginAnswered(t)
  \/ \E t \in Procs : TimerFires(t)
  \/ IntervalFire
  \/ Tick(TRUE)

SpecLive ==
  /\ InitLive
  /\ [][NextLive]_vars
  /\ \A t \in Procs : WF_vars(Answered(t)) /\ WF_vars(LoginAnswered(t))
                      /\ WF_vars(TimerFires(t))
  /\ WF_vars(IntervalFire)
  /\ SF_vars(Tick(TRUE))

\* new TeslaPowerwallPlatform(log, config, api): without ip or password it
\* returns early; else it creates the client (whose constructor starts the
\* initial login) and listens for didFinishLaunching
PlatformConstructor ==
  /\ plat.phase = "new"
  /\ IF plat.ip /\ plat.password
     THEN /\ plat' = [plat EXCEPT !.phase = "constructed", !.client = TRUE,
                                  !.listening = TRUE]
          /\ th' = [th EXCEPT ![Ctor] = InitialLogin]
          /\ authInProgress' = Ctor
     ELSE /\ plat' = [plat EXCEPT !.phase = "invalid"]
          /\ UNCHANGED <<th, authInProgress>>
  /\ UNCHANGED <<sessionCookies, sinceAuth, loginIntervalId, interval, cache,
                 faultsLeft, ticksLeft, hist>>
  /\ UNCHANGED <<config, stored, pollingIntervalId, pollTimer, ticks, reads, removed,
                 lastGood, ev>>

\* configureAccessory(accessory): the host restores a cached accessory
ConfigureAccessory(u) ==
  /\ plat.phase \in {"constructed", "invalid"}
  /\ u \notin plat.accessories
  /\ Cardinality(plat.accessories) < MaxRestored
  /\ plat' = [plat EXCEPT !.accessories = @ \cup {u}]
  /\ UNCHANGED <<sessionCookies, sinceAuth, authInProgress, loginIntervalId, interval,
                 cache, th, faultsLeft, ticksLeft, hist>>
  /\ UNCHANGED <<config, stored, pollingIntervalId, pollTimer, ticks, reads, removed,
                 lastGood, ev>>

\* the host emits didFinishLaunching: the listener calls discoverDevices, which
\* awaits testConnection; a platform that returned early has no listener
DidFinishLaunching ==
  /\ plat.phase \in {"constructed", "invalid"}
  /\ plat' = [plat EXCEPT !.phase = IF plat.listening THEN "testing" ELSE "idle"]
  /\ UNCHANGED <<sessionCookies, sinceAuth, authInProgress, loginIntervalId, interval,
                 cache, th, faultsLeft, ticksLeft, hist>>
  /\ UNCHANGED <<config, stored, pollingIntervalId, pollTimer, ticks, reads, removed,
                 lastGood, ev>>

\* the state-of-energy request of testConnection has ended with res
ConnectionTested(res) ==
  /\ plat.phase = "testing"
  /\ plat' = [plat EXCEPT !.phase = IF GoesOn(TestConnection(res)) THEN "creating"
                                    ELSE "unreachable"]
  /\ UNCHANGED <<sessionCookies, sinceAuth, authInProgress, loginIntervalId, interval,
                 cache, th, faultsLeft, ticksLeft, hist>>
  /\ UNCHANGED <<config, stored, pollingIntervalId, pollTimer, ticks, reads, removed,
                 lastGood, ev>>

\* the next create function that the configuration enables runs after its
\* await import(): for each of its accessories a handler is constructed (which
\* starts its polling loop), a new accessory is registered, the UUID is noted
CreateAccessories ==
  LET k == NextGroup(plat.next, config)
      group == CreateGroup(k)
      made == {AccOf(u) : u \in group}
  IN /\ plat.phase = "creating"
     /\ k <= CreateCount
     /\ plat' = [plat EXCEPT
          !.next = k + 1,
          !.handlers = [u \in Uuids |-> IF u \in group THEN @[u] + 1 ELSE @[u]],
          !.registered = [u \in Uuids |->
                            IF u \in group /\ Registers(u \in plat.accessories)
                            THEN @[u] + 1 ELSE @[u]],
          !.discovered = @ \cup group]
     /\ pollTimer' = [a \in Accs |-> pollTimer[a] \/ a \in made]
     /\ pollingIntervalId' = [a \in Accs |-> IF a \in made /\ StoresHandle(a)
                                             THEN TimerHandle ELSE pollingIntervalId[a]]
     /\ UNCHANGED <<sessionCookies, sinceAuth, authInProgress, loginIntervalId, interval,
                    cache, th, faultsLeft, ticksLeft, hist>>
     /\ UNCHANGED <<config, stored, ticks, reads, removed, lastGood, ev>>

\* removeOrphanedAccessories, after the last create function
RemoveOrphanedAccessories ==
  LET orphanedAccessories == Orphaned(plat.accessories, plat.discovered)
  IN /\ plat.phase = "creating"
     /\ NextGroup(plat.next, config) > CreateCount
     /\ plat' = [plat EXCEPT
          !.phase = "done",
          !.unregistered = @ \cup orphanedAccessories,
          !.unregisterCalls = IF orphanedAccessories # {} THEN @ + 1 ELSE @]
     /\ UNCHANGED <<sessionCookies, sinceAuth, authInProgress, loginIntervalId, interval,
                    cache, th, faultsLeft, ticksLeft, hist>>
     /\ UNCHANGED <<config, stored, pollingIntervalId, pollTimer, ticks, reads, removed,
                    lastGood, ev>>

\* SpecDiscover: the host constructs the platform with a configuration that has
\* ip and password or lacks them, restores up to MaxRestored cached accessories
\* and launches; the gateway answers the connectivity check or not
InitDiscover ==
  /\ sessionCookies = Empty
  /\ sinceAuth = 0
  /\ authInProgress = NoAuth
  /\ loginIntervalId = NoTimer
  /\ interval = [armed |-> FALSE, rem |-> 0]
  /\ cache = [e \in Endpoints |-> NoEntry]
  /\ th = [t \in Procs |-> IdleThread]
  /\ hist = InitHist
  /\ faultsLeft = 0
  /\ ticksLeft = 0
  /\ config \in [lowBattery : {Undefined}, gridSensorThreshold : {Undefined},
                 enableGridStatus : BOOLEAN, enableGridPowerSensors : BOOLEAN,
                 enablePowerMeters : BOOLEAN]
  /\ plat \in {NewPlatform(ip, password) : ip \in BOOLEAN, password \in BOOLEAN}
  /\ stored = [g \in Getters |-> InitialStored(g)]
  /\ pollingIntervalId = [a \in Accs |-> NoTimer]
  /\ pollTimer = [a \in Accs |-> FALSE]
  /\ ticks = [a \in Accs |-> <<>>]
  /\ reads = {}
  /\ removed = {}
  /\ lastGood = [g \in Getters |-> InitialStored(g)]
  /\ ev = NoEvent

NextDiscover ==
  \/ PlatformConstructor
  \/ \E u \in Uuids \cup {StaleUuid} : ConfigureAccessory(u)
  \/ DidFinishLaunching
  \/ \E res \in SoeResults : ConnectionTested(res)
  \/ CreateAccessories
  \/ RemoveOrphanedAccessories

SpecDiscover == InitDiscover /\ [][NextDiscover]_vars

\* the values getters: the host reads characteristics, one configuration per
\* behaviour
Percentages == {Undefined, Num(0), Num(200), Num(204), Num(210), Num(1000)}
LowBatteryChoices == {Undefined, Num(0), Num(20), Num(100)}
BatteryPowers == {Undefined, Num(-100), Num(0), Num(50), Num(51)}
GridStatuses == {Undefined, Str(""), Str("SystemGridConnected"),
                 Str("SystemIslandedActive"), Str("systemgridconnected")}
ThresholdChoices == {Undefined, Num(0), Num(10)}
SitePowers == {Undefined} \cup {Num(n) : n \in {-51, -50, -11, -10, -1, 0, 1, 10, 11, 50, 51}}
LoadPowers == {Undefined, Num(0), Num(-5), Num(2000000)}

\* the field values a response to getter g may carry
Fields(g) ==
  CASE g \in {"getBatteryLevel", "getStatusLowBattery"} -> Percentages
    [] g = "getChargingState" -> BatteryPowers
    [] g = "getGridStatus" -> GridStatuses
    [] g \in {"feeding.getSensorState", "pulling.getSensorState"} -> SitePowers
    [] g = "getCurrentPower" -> LoadPowers

Responses(g) == {Rejected} \cup {Resolved(v) : v \in Fields(g)}

InitValues ==
  /\ Constructed
  /\ faultsLeft = 0
  /\ ticksLeft = 0
  /\ config \in [lowBattery : LowBatteryChoices, gridSensorThreshold : ThresholdChoices,
                 enableGridStatus : {TRUE}, enableGridPowerSensors : {TRUE},
                 enablePowerMeters : {TRUE}]
  /\ AccessoriesConstructed

NextValues ==
  \/ \E g \in Getters : OnGet(g)
  \/ \E g \in Getters : \E resp \in Responses(g) : OnGetSettle(g, resp)

SpecValues == InitValues /\ [][NextValues]_vars

\* SpecSensors: the polling loops of the two grid power sensors, each request
\* answered with its own sample of the site power
GridSensors == {"feeding", "pulling"}

InitSensors ==
  /\ Constructed
  /\ faultsLeft = 0
  /\ ticksLeft = 0
  /\ config \in [lowBattery : {Undefined}, gridSensorThreshold : ThresholdChoices,
                 enableGridStatus : {TRUE}, enableGridPowerSensors : {TRUE},
                 enablePowerMeters : {TRUE}]
  /\ AccessoriesConstructed

NextSensors ==
  \/ \E a \in GridSensors : PollFire(a, MaxOverlap)
  \/ \E a \in GridSensors : \E k \in 1..Len(ticks[a]) :
       \E resp \in Responses(TickGetters(a)[ticks[a][k].step]) : PollSettle(a, k, resp)

SpecSensors == InitSensors /\ [][NextSensors]_vars

\* the polling loops: timers fire, requests settle, accessories are destroyed
PollField(g) ==
  CASE g \in {"getBatteryLevel", "getStatusLowBattery"} -> Num(200)
    [] g = "getChargingState" -> Num(100)
    [] g = "getGridStatus" -> Str("SystemIslandedActive")
    [] g \in {"feeding.getSensorState", "pulling.getSensorState"} -> Num(100)
    [] g = "getCurrentPower" -> Num(5)

PollResponses(g) == {Rejected, Resolved(PollField(g))}

InitPoll ==
  /\ Constructed
  /\ faultsLeft = 0
  /\ ticksLeft = 0
  /\ config \in [lowBattery : {Undefined}, gridSensorThreshold : {Undefined},
                 enableGridStatus : BOOLEAN, enableGridPowerSensors : BOOLEAN,
                 enablePowerMeters : BOOLEAN]
  /\ Enabled(config) <= MaxEnabled
  /\ AccessoriesConstructed

TickSettles(a) ==
  \E k \in 1..Len(ticks[a]) : \E resp \in PollResponses(TickGetters(a)[ticks[a][k].step]) :
    PollSettle(a, k, resp)

NextPoll ==
  \/ \E a \in Accs : PollFire(a, MaxOverlap)
  \/ \E a \in Accs : TickSettles(a)
  \/ \E a \in Accs : DestroyAccessory(a)

\* SpecOverlap: the polling loops with a request that can stay unanswered for
\* longer than the polling interval (the retry-after wait of a 429 is 30 s by
\* default, the interval 15 s): the timer fires again, up to PollOverlap
\* callbacks of one loop in progress
NextOverlap ==
  \/ \E a \in Accs : PollFire(a, PollOverlap)
  \/ \E a \in Accs : TickSettles(a)
  \/ \E a \in Accs : DestroyAccessory(a)

SpecOverlap == InitPoll /\ [][NextOverlap]_vars

\* timers fire and every request settles (by a response or by its timeout)
SpecPoll ==
  /\ InitPoll
  /\ [][NextPoll]_vars
  /\ \A a \in Accs : WF_vars(PollFire(a, MaxOverlap)) /\ WF_vars(TickSettles(a))

\* ------------------------------------------------------------------ claims
\* thread t calls authenticate() in this step (a re-send of a login request
\* after a 429 is part of the attempt that sent it first)
StartsLogin(t) == th'[t].pc = "loginFetch" /\ th[t].pc \notin LoginPcs

\* thread t enters authenticateWithRateLimit in this step
EntersAwrl(t) == th'[t].awrl = Cur[t].awrl + 1

\* two calls of the host that are in progress together
Together(t, u) == t # u /\ Active(t) /\ Active(u)

\* C1 (as claimed): two get() calls that are in progress together and both
\* found the session empty have had at most one login request sent for them.
C1_OneLoginForConcurrentGets ==
  \A t, u \in Reqs :
    (Together(t, u) /\ th[t].method = "GET" /\ th[u].method = "GET"
       /\ th[t].foundEmpty /\ th[u].foundEmpty)
    => th[t].logins + th[u].logins <= 1

\* C2 (as claimed): of the requests in progress together whose first send got
\* a 401, at most one is running a login attempt of its own.
C2_OneReauthForConcurrent401s ==
  \A t, u \in Reqs :
    (Together(t, u) /\ th[t].st1 = 401 /\ th[u].st1 = 401)
    => ~(th[t].pc \in LoginPcs /\ th[u].pc \in LoginPcs)

\* C3: a caller that enters authenticateWithRateLimit while an attempt is
\* recorded in authInProgress awaits that attempt and sends no login request;
\* it goes on in the very step in which the attempt completes, with the
\* attempt's outcome, and a failure of the attempt is the failure of its call.
C3_JoinSharesTheAttempt ==
  [][\A t \in Procs :
       /\ (EntersAwrl(t) /\ authInProgress # NoAuth)
            => /\ th'[t].pc = "awaitAuth"
               /\ th'[t].auth = authInProgress
               /\ th'[t].logins = Cur[t].logins
       /\ th[t].pc = "awaitAuth"
            => /\ th[th[t].auth].pc \in LoginPcs
               /\ th'[t].logins = th[t].logins
               /\ (th'[t].pc # "awaitAuth") <=> (th'[th[t].auth].pc \notin LoginPcs)
               /\ th'[t].pc # "awaitAuth"
                    => /\ th'[t].reauth # NoResult
                       /\ th'[t].reauth = th'[th[t].auth].reauth
                       /\ th'[t].reauth = Ok => th'[t].pc \in {"fetch", "done"}
                       /\ th'[t].reauth # Ok
                            => th'[t].pc = "failed" /\ th'[t].result = th'[t].reauth
    ]_vars

\* C3 witness: a request that joined an attempt in progress has failed with
\* the failure of that attempt.
C3_Witness ==
  \E t \in Reqs :
    /\ th[t].pc = "failed" /\ th[t].joined
    /\ th[t].reauth \notin {Ok, NoResult} /\ th[t].result = th[t].reauth

\* C4 (as claimed): authenticate() is called only when minInterval has passed
\* since the latest attempt; lastAuthAttempt is the time of an earlier
\* attempt, so the time since the latest one is at most sinceAuth.
C4_LoginStartsApart ==
  [][\A t \in Procs : StartsLogin(t) => sinceAuth >= minInterval]_vars

\* C5 (as claimed): the constructor has sent one login request (Init), so on a
\* fresh client the first get() has sent none when its own request goes out.
C5_FirstGetAddsNoLogin ==
  \A t \in Reqs :
    (th[t].fresh /\ th[t].method = "GET" /\ th[t].sends >= 1) => th[t].logins = 0

\* C6 (as claimed): a call whose first send got a 401 has, when it ends,
\* re-authenticated exactly once and re-sent its request exactly once.
C6_AlwaysOneResend ==
  \A t \in Reqs :
    (Ended(t) /\ th[t].st1 = 401) => (th[t].awrl = 1 /\ th[t].sends = 2)

\* C6 (amended): a 401 to the first send of a request to a non-login endpoint
\* makes the call enter authenticateWithRateLimit exactly once; the request is
\* sent again, once, exactly when that re-authentication succeeds, else the
\* call fails with the error of the re-authentication; a 401 to the request
\* sent again ends the call with the HTTP 401 error.
C6_OneReauthThenOneResend ==
  \A t \in Reqs :
    th[t].st1 = 401
    => /\ th[t].awrl = 1
       /\ th[t].sends <= 2
       /\ th[t].sends = 2 <=> th[t].reauth = Ok
       /\ (th[t].reauth \notin {Ok, NoResult})
            => Ended(t) /\ th[t].result = th[t].reauth
       /\ th[t].st2 = 401
            => Ended(t) /\ th[t].result = HttpError(401) /\ th[t].sends = 2

\* C6 witness: a call has ended after a 401 to its first send and a 401 to the
\* request it sent again.
C6_Witness ==
  \E t \in Reqs : Ended(t) /\ th[t].st1 = 401 /\ th[t].st2 = 401 /\ th[t].reauth = Ok

\* C7 (as claimed): the wait after a 429 is never shorter than the delay that
\* the retry-after header stands for.
C7_WaitCoversRetryAfter ==
  \A t \in Reqs :
    th[t].pc = "wait429" => th[t].waited >= th[t].hdrSecs * 1000

\* C8 (as claimed): two get() calls in progress together, to the same endpoint
\* with the same ttl and both started less than ttl ago, have had one request
\* sent to the gateway between them.
C8_OneRequestPerTtlWindow ==
  \A t, u \in Reqs :
    (Together(t, u) /\ th[t].method = "GET" /\ th[u].method = "GET"
       /\ th[t].endpoint = th[u].endpoint /\ th[t].ttl = th[u].ttl /\ th[t].ttl # 0
       /\ th[t].startAge < th[t].ttl /\ th[u].startAge < th[u].ttl)
    => th[t].sends + th[u].sends <= 1

\* C9 (as claimed): once destroy() has been called, and as long as the host
\* starts no new call, the periodic timer is not set and no login is started.
C9_NoTimerAfterDestroy ==
  [][(hist.destroyed /\ ~hist'.lateCalls)
       => (~interval'.armed /\ \A t \in Procs : ~StartsLogin(t))]_vars

\* C10 (as claimed): once destroy() has been called, and as long as the host
\* starts no new call, the cache and the session are empty.
C10_EmptyAfterDestroy ==
  (hist.destroyed /\ ~hist.lateCalls)
    => (sessionCookies = Empty /\ \A e \in Endpoints : cache[e] = NoEntry)

\* the login request of thread t gets no response or a non-success status in
\* this step: authenticate() rejects
LoginRequestFails(t) == th[t].pc = "loginFetch" /\ th'[t].pc \in EndPcs

\* C20: whenever an authentication attempt fails (the login request throws or
\* returns a non-success status), the session token is empty afterwards,
\* whatever it was before the attempt
C20_EmptyAfterFailedLogin ==
  [][\A t \in Procs : LoginRequestFails(t) => sessionCookies' = Empty]_vars

\* the latest step is the return of getter g after a successful request
Got(g) == ev.kind \in {"get", "tickStep", "tickEnd"} /\ ev.g = g /\ ev.resp.ok

\* the value of a configuration option: as configured, d when not configured
Configured(opt, d) == IF opt.def THEN opt.n ELSE d

\* C11: for every battery percentage p in 0..100 returned by the gateway and
\* every configured lowBattery L in 0..100 (20 when not configured),
\* getStatusLowBattery reports BATTERY_LEVEL_LOW if and only if p <= L
C11_LowIffAtOrBelowThreshold ==
  (Got("getStatusLowBattery") /\ ev.resp.v.def)
    => LET p == ev.resp.v.n
           L == Configured(config.lowBattery, DefaultLowBattery)
       IN (ev.ret = BATTERY_LEVEL_LOW) <=> (p <= L * Tenths)

\* C12: for every configured gridSensorThreshold T >= 0, T = 0 included (50
\* only when the option is not configured), and every site power s: the
\* pulling sensor's condition is met iff s > T, the feeding sensor's iff
\* s < -T; for s in [-T, T] neither is met
C12_ThresholdAsConfigured ==
  LET T == Configured(config.gridSensorThreshold, DefaultThreshold)
      s == ev.resp.v.n
  IN /\ (Got("pulling.getSensorState") /\ ev.resp.v.def)
          => ((ev.ret = CONTACT_DETECTED) <=> (s > T))
     /\ (Got("feeding.getSensorState") /\ ev.resp.v.def)
          => ((ev.ret = CONTACT_DETECTED) <=> (s < 0 - T))

\* C13: getGridStatus reports the grid as connected if and only if the
\* grid_status field of the response is exactly "SystemGridConnected"; every
\* other value (the empty string, another text, a missing field) is reported
\* as not connected
C13_ConnectedIffExactText ==
  Got("getGridStatus")
    => /\ ev.ret \in {CONTACT_DETECTED, CONTACT_NOT_DETECTED}
       /\ (ev.ret = CONTACT_DETECTED)
            <=> (ev.resp.v.def /\ ev.resp.v.s = "SystemGridConnected")

\* getGridStatus has returned for a text that differs from the exact one by
\* its case only
C13_Witness ==
  /\ Got("getGridStatus")
  /\ ev.resp.v = Str("systemgridconnected")
  /\ ev.ret = CONTACT_NOT_DETECTED

\* C14: for every battery power reading b, getChargingState reports
\* NOT_CHARGING when b is strictly greater than the noise floor (50 W) and
\* CHARGING when b is at or below the noise floor
C14_DischargingAboveFloor ==
  (Got("getChargingState") /\ ev.resp.v.def)
    => LET b == ev.resp.v.n
       IN IF b > NoiseFloor THEN ev.ret = NOT_CHARGING ELSE ev.ret = CHARGING

\* C15: a battery power reading exactly equal to the noise floor (50 W) is
\* reported by getChargingState as NOT_CHARGING: the comparison is strict
C15_AtFloorNotCharging ==
  (Got("getChargingState") /\ ev.resp.v = Num(NoiseFloor)) => ev.ret = NOT_CHARGING

\* getChargingState has returned for a reading of exactly the noise floor
C15_Witness ==
  Got("getChargingState") /\ ev.resp.v = Num(NoiseFloor) /\ stored["getChargingState"] = NOT_CHARGING

\* getter g returns in this step after its request has failed
GetterFails(g) ==
  ev'.kind \in {"get", "tickStep", "tickEnd"} /\ ev'.g = g /\ ~ev'.resp.ok

\* C17: when the request made by a characteristic getter fails, the getter
\* returns (it does not throw), leaves the accessory's stored value unchanged
\* and returns the value of the most recent successful fetch of that getter
\* (the initial default if there was none)
C17_FailedGetterKeepsLastValue ==
  [][\A g \in Getters :
       GetterFails(g) => /\ stored'[g] = stored[g]
                         /\ ev'.ret = lastGood[g]
                         /\ lastGood'[g] = lastGood[g]]_vars

\* a getter has returned a value other than its initial default after a
\* failed request
C17_Witness ==
  /\ ev.kind = "get"
  /\ ~ev.resp.ok
  /\ ev.ret # InitialStored(ev.g)
  /\ ev.ret = stored[ev.g]

\* a callback of the polling timer of accessory a has returned, and a request
\* of one of its getters had failed
FailedTick(a) == ev.kind = "tickEnd" /\ ev.acc = a /\ ev.failed

\* the polling timer of accessory a has just called its callback
TickStarted(a) == ev.kind = "tickStart" /\ ev.acc = a

\* C16: for every accessory polling loop, a tick whose request fails never
\* stops the loop: as long as the loop has not been destroyed, another tick is
\* started after any failed tick
C16_FailedTickIsFollowed ==
  \A a \in Accs : FailedTick(a) ~> (TickStarted(a) \/ a \in removed)

\* a tick of a loop that is not destroyed has ended with a failed request and
\* the timer of the loop is still set
C16_Witness ==
  \E a \in Accs : FailedTick(a) /\ a \notin removed /\ pollTimer[a]

\* C18: after destroy() of an accessory, that accessory publishes no further
\* value to the host (no updateCharacteristic) and starts no further request,
\* also for a tick that was awaiting its response when destroy() was called
C18_QuietAfterDestroy ==
  ev.afterDestroy => ~(ev.published \/ ev.requested)

\* C19: every polling loop started by an accessory owns its timer handle and
\* can be stopped by an operation of that accessory
C19_EveryLoopStoppable ==
  \A a \in Accs : pollTimer[a] => (pollingIntervalId[a] # NoTimer /\ HasDestroy(a))

\* authenticate() of thread t resolves in this step: its caller goes on (sends
\* its request) or returns
AuthenticateResolves(t) == th[t].pc = "loginJson" /\ th'[t].pc \in {"done", "fetch"}

\* C21: authenticate() completes successfully only if a non-empty session
\* token has been stored; it fails whenever the login response, even with a
\* success status, carries no session token
C21_ResolvesOnlyWithToken ==
  [][\A t \in Procs : AuthenticateResolves(t) => sessionCookies' # Empty]_vars

\* thread t sends the request of its call (to a non-login endpoint) in this step
SendsRequest(t) == th'[t].pc = "fetch" /\ th'[t].sends = Cur[t].sends + 1

\* C29: every request that the client sends to a non-login endpoint carries a
\* non-empty session token, in any interleaving of requests, logins,
\* clearSession() and destroy()
C29_NoRequestWithoutToken ==
  [][\A t \in Reqs : SendsRequest(t) => sessionCookies' # Empty]_vars

\* the getters that read a numeric field of the response
NumericGetters == Getters \ {"getGridStatus"}

\* C28: a numeric field that is absent from a gateway response is treated by
\* the getters as 0: an absent instant_power gives what a reading of 0 gives,
\* an absent percentage yields battery level 0 and is compared as 0 against
\* the low-battery threshold
C28_AbsentNumberIsZero ==
  (ev.g \in NumericGetters /\ Got(ev.g) /\ ~ev.resp.v.def)
    => CASE ev.g = "getBatteryLevel" -> ev.ret = 0
         [] ev.g = "getStatusLowBattery" ->
              ((ev.ret = BATTERY_LEVEL_LOW)
                 <=> (0 <= Configured(config.lowBattery, DefaultLowBattery)))
         [] OTHER -> ev.ret = Computed(ev.g, Num(0), config)

\* the call of thread t starts and returns in this step: makeRequest returns
\* cached.data
ServedFromCache(t) == Cur[t].pc = "idle" /\ th'[t].pc = "done"

\* C30: get(endpoint, ttl) returns a cached payload only if that payload was
\* stored for the same endpoint strictly less than ttl ago, measured with the
\* ttl of the current call; on such a hit it performs neither an
\* authentication nor a transport request
C30_HitOnlyWithinOwnTtl ==
  [][\A t \in Reqs :
       ServedFromCache(t)
         => LET call == th'[t]
            IN /\ call.method = "GET"
               /\ cache[call.endpoint] # NoEntry
               /\ cache[call.endpoint].data = call.endpoint
               /\ cache[call.endpoint].age < call.ttl
               /\ call.sends = 0
               /\ call.logins = 0
               /\ sessionCookies' = sessionCookies]_vars

\* a get() has returned from the cache without a request or a login
C30_Witness ==
  \E t \in Reqs : /\ th[t].pc = "done" /\ th[t].ttl # 0
                  /\ th[t].sends = 0 /\ th[t].logins = 0
                  /\ cache[th[t].endpoint] # NoEntry

\* the call of thread t has failed with the error of a status other than 401
\* and 429
FailedWithStatus(t) ==
  th[t].pc = "failed" /\ th[t].result.kind = "http" /\ th[t].result.status \in ErrorStatuses

\* the request of thread t gets a response with status s in this step
OtherErrorArrives(t, s) ==
  /\ th[t].pc = "fetch"
  /\ th'[t].pc # "fetch"
  /\ (IF th[t].isRetry THEN th'[t].st2 ELSE th'[t].st1) = s

\* C24 as stated: a response with a non-success status other than 401 and 429
\* makes the call fail at once, and the request has been sent exactly once
C24_SentExactlyOnce ==
  \A t \in Reqs : FailedWithStatus(t) => th[t].sends = 1

\* C24: a response with a non-success status other than 401 and 429 makes the
\* call fail at once with an error carrying the status: the request is not
\* sent again (it has been sent once, or twice when the response answers the
\* one re-send after a 401 or a 429), the response triggers no authentication
\* and nothing is written to the cache
C24_OtherStatusIsTerminal ==
  [][\A t \in Reqs : \A s \in ErrorStatuses :
       OtherErrorArrives(t, s)
         => /\ th'[t].pc = "failed"
            /\ th'[t].result = HttpError(s)
            /\ th'[t].sends = th[t].sends
            /\ th'[t].sends = IF th[t].isRetry THEN 2 ELSE 1
            /\ th'[t].logins = th[t].logins
            /\ th'[t].awrl = th[t].awrl
            /\ authInProgress' = authInProgress
            /\ sessionCookies' = sessionCookies
            /\ cache' = cache]_vars

\* a call has failed with the error of status 500 on its first send
C24_Witness ==
  \E t \in Reqs : FailedWithStatus(t) /\ th[t].st1 = 500 /\ th[t].sends = 1

\* the first send of the request of thread t gets 401 in this step
Gets401(t) ==
  th[t].pc = "fetch" /\ ~th[t].isRetry /\ th'[t].pc # "fetch" /\ th'[t].st1 = 401

\* thread t sends its request again after the re-authentication that a 401 started
ResendsAfter401(t) == SendsRequest(t) /\ th'[t].isRetry /\ th[t].st1 = 401

\* C22: when a non-login request receives 401, the session that was attached
\* to it is invalidated, and the retried request is sent with a token obtained
\* by the re-authentication that followed, never with the token that was
\* attached to the request that received the 401
C22_RetryWithNewSession ==
  [][\A t \in SessionCalls :
       th[t].cookie # Empty
         => /\ Gets401(t) => sessionCookies' # th[t].cookie
            /\ ResendsAfter401(t) => th'[t].cookie # th[t].cookie]_vars

\* a response to the request of thread t is processed in this step
ResponseProcessed(t) == th[t].pc = "fetch" /\ th'[t].pc # "fetch"

\* a response of the login endpoint with a success status is processed in this step
LoginResponseProcessed ==
  \E t \in Procs : th[t].pc = "loginFetch" /\ th'[t].pc = "loginJson"

\* C23: the session token is written only by the authentication path: it
\* changes only when a response of the login endpoint is processed, or by
\* clearSession() or destroy(); a get or post to a non-login endpoint leaves
\* it unchanged whatever the response status (401 and 429 included)
C23_TokenWrittenByLoginOnly ==
  [][/\ sessionCookies' # sessionCookies
          => (LoginResponseProcessed \/ ClearSession \/ Destroy)
     /\ \A t \in SessionCalls : ResponseProcessed(t) => sessionCookies' = sessionCookies]_vars

\* a request has received 401 and the stored token is still the one the
\* request was sent with
C23_Witness ==
  \E t \in SessionCalls :
    /\ th[t].st1 = 401
    /\ th[t].pc \in {"rateWait", "loginFetch", "awaitAuth"}
    /\ sessionCookies # Empty
    /\ sessionCookies = th[t].cookie

\* C27: a session token is stale once 11 hours have passed since it was
\* established: no request to a non-login endpoint is sent with a token
\* established more than 11 hours earlier, also when the periodic re-login
\* that was due has failed
C27_NoRequestWithStaleToken ==
  [][\A t \in SessionCalls :
       (SendsRequest(t) /\ th'[t].cookie # Empty) => hist'.tokenAge <= loginInterval]_vars

\* ---------------------------------------------------------------------- C25
\* the periodic re-login timer is installed and has its full 11 h to run
TimerInstalled ==
  /\ loginIntervalId = TimerHandle
  /\ interval = [armed |-> TRUE, rem |-> loginInterval]

\* a periodic re-login has just failed
PeriodicLoginFailed == th[Tmr].pc = "failed"

Authentications(t) == (IF th[t].foundEmpty THEN 1 ELSE 0) + th[t].awrl

\* C26: a get() or post() call sends its request at most twice, triggers at
\* most two authentications (one for an empty session, at most one through
\* authenticateWithRateLimit) that send at most two login requests each, and,
\* when every request is answered and every wait ends, the call ends: it
\* returns or throws.
C26_CallsEndWithinBounds ==
  /\ [](\A t \in SessionCalls :
          /\ th[t].sends <= 2
          /\ th[t].awrl <= 1
          /\ Authentications(t) <= 2
          /\ th[t].logins <= 2 * Authentications(t))
  /\ \A t \in SessionCalls : Active(t) ~> Ended(t)

\* C26 witness: a call has ended after a 401: it has sent its request twice and
\* the authentication it triggered has sent two login requests
C26_Witness ==
  \E t \in SessionCalls :
    /\ Ended(t)
    /\ th[t].st1 = 401
    /\ th[t].sends = 2
    /\ th[t].awrl = 1
    /\ th[t].logins = 2

\* ---------------------------------------------------------------------- C31
\* C31: when a login response with the Set-Cookie values hdr is processed, the
\* stored token becomes the first segments of the values, trimmed, the empty
\* ones left out, joined with "; " in their order; a response without the
\* header leaves the token as it was.
C31_TokenIsJoinedFirstSegments ==
  [][\A t \in Procs, hdr \in SetCookieLists :
       LoginOk(t, hdr) =>
         sessionCookies' = IF hdr = NoSetCookie THEN sessionCookies
                           ELSE JoinCookies(CookiePairs(hdr))]_vars

\* ---------------------------------------------------------------------- C33
\* C33: a call has one retry for the 401 and the 429 path together. It sends
\* its request at most twice; a 401 that answers the re-send after a 429 ends
\* the call with that error and no authentication; a 429 that answers the
\* re-send after a 401 ends the call with the rate-limit error and no wait.
C33_OneRetryBudget ==
  \A t \in Reqs :
    /\ th[t].sends <= 2
    /\ (th[t].st1 = 429 /\ th[t].st2 = 401)
         => /\ Ended(t)
            /\ th[t].result = HttpError(401)
            /\ th[t].awrl = 0
            /\ th[t].sends = 2
    /\ (th[t].st1 = 401 /\ th[t].st2 = 429)
         => /\ Ended(t)
            /\ th[t].result = RateLimitError
            /\ th[t].waited = 0
            /\ th[t].awrl = 1
            /\ th[t].sends = 2

\* C33 witness: the re-send after a 401 was answered 429 and the call has failed
C33_Witness ==
  \E t \in Reqs : Ended(t) /\ th[t].st1 = 401 /\ th[t].st2 = 429

\* the other order is reached as well: the re-send after a 429 was answered 401
C33_WitnessAfter429 ==
  \E t \in Reqs : Ended(t) /\ th[t].st1 = 429 /\ th[t].st2 = 401

\* ---------------------------------------------------------------------- C38
\* thread t is sending a login request, waiting to send it again or reading
\* the body of its answer
InLogin(t) == th[t].pc \in LoginPcs

\* C38: while a thread is in a login request it never enters
\* authenticateWithRateLimit and never waits for an authentication: the login
\* goes on or the authentication completes (its caller ends or sends its
\* request); a 401 to the login request completes the authentication with that
\* error; and whoever awaits an authentication awaits another thread, which is
\* in its login request and so awaits nobody.
C38_LoginNeverNests ==
  /\ [](\A t \in Procs :
          th[t].pc = "awaitAuth" => th[t].auth # t /\ InLogin(th[t].auth))
  /\ [][\A t \in Procs :
          InLogin(t) =>
            /\ th'[t].awrl = th[t].awrl
            /\ th'[t].pc \in LoginPcs \cup {"done", "failed", "fetch"}
            /\ LoginFail(t, HttpError(401)) => th'[t].pc = "failed"]_vars

\* C38 witness: a login request has been answered 401 and the authentication
\* has failed with that error
C38_Witness ==
  \E t \in Procs :
    /\ th[t].pc = "failed"
    /\ th[t].result = HttpError(401)
    /\ th[t].logins >= 1
    /\ th[t].sends = 0

\* ---------------------------------------------------------------------- C39
\* an authentication that authenticateWithRateLimit started is in flight
AwrlInFlight == \E t \in Procs : InLogin(t) /\ th[t].ctx = "awrl"

\* C39: authInProgress is set exactly while an authentication started through
\* authenticateWithRateLimit is in flight.
C39_MarkerIffInFlight == authInProgress # NoAuth <=> AwrlInFlight

\* ---------------------------------------------------------------------- C40
\* the cache entry of endpoint e is written in this step (time only makes an
\* entry older)
CacheWritten(e) ==
  /\ cache'[e] # NoEntry
  /\ \/ cache[e] = NoEntry
     \/ cache'[e].data # cache[e].data
     \/ cache'[e].age < cache[e].age

\* the call of thread t ends in this step
CallEnds(t) == Active(t) /\ Ended(t)'

\* C40: the cache entry of an endpoint is written only in the step in which a
\* GET of that endpoint with a ttl > 0 returns its data; the step in which a
\* call throws, a GET without ttl returns or a POST returns leaves every cache
\* entry as it was.
C40_OnlyGoodGetWrites ==
  [][/\ \A e \in Endpoints :
          CacheWritten(e) =>
            \E t \in Reqs : /\ CallEnds(t)
                            /\ th'[t].result = Ok
                            /\ th[t].pc = "fetch"
                            /\ th[t].method = "GET"
                            /\ th[t].endpoint = e
                            /\ th[t].ttl > 0
     /\ \A t \in Reqs :
          (CallEnds(t) /\ (th'[t].result # Ok \/ th[t].method # "GET" \/ th[t].ttl = 0))
            => cache' = cache]_vars

\* C40 witness: an endpoint has a cached payload, and a GET of it with a ttl
\* has just failed after its re-authentication failed
C40_Witness ==
  \E t \in Reqs :
    /\ th[t].pc = "failed"
    /\ th[t].method = "GET"
    /\ th[t].ttl > 0
    /\ th[t].st1 = 401
    /\ th[t].reauth \notin {NoResult, Ok}
    /\ cache[th[t].endpoint] # NoEntry

\* ---------------------------------------------------------------------- C37
\* C37: at most one callback of a polling loop is in progress at any time.
C37_OneTickAtATime == \A a \in Accs : Len(ticks[a]) <= 1

\* ---------------------------------------------------------------------- C32
\* event e is sensor accessory a publishing "condition met", evaluated on the
\* sample its own request has fetched
PublishesDetected(e, a) ==
  /\ e.acc = a
  /\ e.published
  /\ e.resp.ok
  /\ e.ret = CONTACT_DETECTED

\* C32: with a threshold >= 0, the feeding sensor and the pulling sensor are
\* never both reported as detected: when one of them has just published
\* "condition met", the other does not publish "condition met" next.
C32_NeverBothDetected ==
  [][SensorThreshold(config.gridSensorThreshold) >= 0
       => \A a, b \in GridSensors :
            (a # b /\ PublishesDetected(ev, a)) => ~PublishesDetected(ev', b)]_vars

\* ---------------------------------------------------------------------- C34
\* C34: for every site power and every threshold, the sensor state that the
\* validation script evaluates for the threshold is the state that
\* getSensorState returns to the host when gridSensorThreshold is configured
\* with that threshold.
C34_ScriptAgreesWithPlugin ==
  \A sensorType \in GridSensors :
    (/\ ev.kind = "get"
     /\ ev.g = TickGetters(sensorType)[1]
     /\ ev.resp.ok
     /\ config.gridSensorThreshold.def)
      => ev.ret = ScriptSensorState(sensorType, ev.resp.v,
                                    DecimalText(config.gridSensorThreshold.n))

\* ---------------------------------------------------------------------- C35
\* the UUIDs for which the discovery run has constructed a handler
DiscoveredInRun == {u \in Uuids : plat.handlers[u] > 0}

\* C35: an accessory restored from the host's cache is never registered; no
\* UUID is registered more than once in the discovery run; and when the run
\* has succeeded, the unregistered accessories are exactly the restored ones
\* whose UUID the run did not discover, handed over in at most one call.
C35_RegisterNewUnregisterOrphans ==
  /\ \A u \in Uuids :
       /\ plat.registered[u] <= 1
       /\ u \in plat.accessories => plat.registered[u] = 0
       /\ (u \in DiscoveredInRun /\ u \notin plat.accessories) => plat.registered[u] = 1
  /\ plat.phase # "done" => plat.unregistered = {}
  /\ plat.phase = "done"
       => /\ plat.unregistered = plat.accessories \ DiscoveredInRun
          /\ plat.unregisterCalls <= 1

\* C35 witness: a run has succeeded that found one accessory restored (and did
\* not register it), registered a new one and unregistered an orphan
C35_Witness ==
  /\ plat.phase = "done"
  /\ \E u \in plat.accessories : u \in DiscoveredInRun /\ plat.registered[u] = 0
  /\ \E u \in Uuids : plat.registered[u] = 1
  /\ \E u \in Uuids : u \in plat.unregistered

\* ---------------------------------------------------------------------- C36
\* nothing has been created, started, registered or unregistered
NothingDone ==
  /\ \A u \in Uuids : plat.handlers[u] = 0 /\ plat.registered[u] = 0
  /\ \A a \in Accs : ~pollTimer[a] /\ pollingIntervalId[a] = NoTimer
  /\ plat.unregistered = {}
  /\ plat.unregisterCalls = 0

\* C36: every failure of the state-of-energy request makes the connectivity
\* check fail, and after a failed check the platform has created no handler,
\* started no polling loop, registered and unregistered nothing; a platform
\* whose configuration lacks ip or password creates no client, never starts
\* discovery and does nothing either.
C36_NothingWithoutConnection ==
  /\ [](plat.phase = "unreachable" => NothingDone)
  /\ []((plat.phase # "new" /\ ~(plat.ip /\ plat.password))
          => /\ ~plat.client
             /\ th[Ctor].pc = "idle"
             /\ authInProgress = NoAuth
             /\ plat.phase \in {"invalid", "idle"}
             /\ NothingDone)
  /\ [][\A res \in SoeResults \ {Ok} :
          ConnectionTested(res) => plat'.phase = "unreachable"]_vars

\* C36 witness: the connectivity check has failed with restored accessories in
\* the platform's map
C36_Witness ==
  /\ plat.phase = "unreachable"
  /\ plat.accessories # {}
  /\ plat.client

\* a platform without ip or password has been launched, and is idle
C36_WitnessInvalid ==
  /\ plat.phase = "idle"
  /\ ~plat.ip

====
